---- MODULE Spec2Model ----
(***************************************************************************)
(* A model of the stateless dialog router of the PartSelect assistant      *)
(* (backend/src/agent/router.ts), of its external classifier adapter       *)
(* (backend/src/agent/groqHelpers.ts), of the lookup tools                 *)
(* (backend/src/agent/tools.ts) and of the HTTP endpoint POST /api/chat    *)
(* that validates a request, calls the router and catches what it throws.  *)
(*                                                                         *)
(* Texts are strings.  Eleven characters of the source's reply texts are   *)
(* outside the character set of TLA+ strings and are written with          *)
(* stand-ins that occur nowhere else in the texts and that no predicate    *)
(* of the router reads:                                                    *)
(*    ^  right single quotation mark (U+2019)     ~  em dash               *)
(*    <  left double quotation mark               >  right double q. mark  *)
(*    $  horizontal ellipsis                      &  bullet                *)
(*    [  check mark emoji                         ]  thumbs up emoji       *)
(*    |  right arrow                              ;  degree sign           *)
(*    %  en dash                                                           *)
(* An absent value (undefined / null in the source) of a text-valued       *)
(* expression is the empty string, which the source's truthiness tests     *)
(* treat alike.                                                            *)
(***************************************************************************)
EXTENDS Integers, Sequences, FiniteSets, TLC

\* ------------------------------------------------------------------------
\* Characters and the string primitives of JavaScript used by the router
\* ------------------------------------------------------------------------
UPPER == "ABCDEFGHIJKLMNOPQRSTUVWXYZ"
LOWER == "abcdefghijklmnopqrstuvwxyz"
DIGITS == "0123456789"

Ch(s, i) == SubSeq(s, i, i)
Chars(s) == { Ch(s, i) : i \in 1..Len(s) }

UpperSet == Chars(UPPER)
LowerSet == Chars(LOWER)
DigitSet == Chars(DIGITS)
LetterSet == UpperSet \cup LowerSet
\* \w of a regular expression
WordSet == LetterSet \cup DigitSet \cup {"_"}
\* \s of a regular expression (the white space that occurs in the texts)
SpaceSet == {" ", "\n", "\t"}

lowerOf == [c \in UpperSet |-> Ch(LOWER, CHOOSE i \in 1..26 : Ch(UPPER, i) = c)]
upperOf == [c \in LowerSet |-> Ch(UPPER, CHOOSE i \in 1..26 : Ch(LOWER, i) = c)]

Min(S) == CHOOSE x \in S : \A y \in S : x <= y
Max(S) == CHOOSE x \in S : \A y \in S : x >= y

RECURSIVE toLowerCase(_)
toLowerCase(s) ==
  IF Len(s) = 0 THEN ""
  ELSE IF Len(s) = 1 THEN (IF s \in UpperSet THEN lowerOf[s] ELSE s)
  ELSE LET h == Len(s) \div 2
       IN toLowerCase(SubSeq(s, 1, h)) \o toLowerCase(SubSeq(s, h + 1, Len(s)))

RECURSIVE toUpperCase(_)
toUpperCase(s) ==
  IF Len(s) = 0 THEN ""
  ELSE IF Len(s) = 1 THEN (IF s \in LowerSet THEN upperOf[s] ELSE s)
  ELSE LET h == Len(s) \div 2
       IN toUpperCase(SubSeq(s, 1, h)) \o toUpperCase(SubSeq(s, h + 1, Len(s)))

\* String.prototype.includes
includes(t, p) == \E i \in 1..(Len(t) - Len(p) + 1) : SubSeq(t, i, i + Len(p) - 1) = p

\* String.prototype.trim
trim(s) ==
  LET keep == { i \in 1..Len(s) : Ch(s, i) \notin SpaceSet }
  IN IF keep = {} THEN "" ELSE SubSeq(s, Min(keep), Max(keep))

\* replace(/\s+/g, " ") on the characters lo..hi: every maximal run of white
\* space becomes one blank
RECURSIVE collapseRange(_, _, _)
collapseRange(s, lo, hi) ==
  IF lo > hi THEN ""
  ELSE IF lo = hi
  THEN (IF Ch(s, lo) \notin SpaceSet THEN Ch(s, lo)
        ELSE IF lo > 1 /\ Ch(s, lo - 1) \in SpaceSet THEN "" ELSE " ")
  ELSE collapseRange(s, lo, (lo + hi) \div 2) \o collapseRange(s, (lo + hi) \div 2 + 1, hi)

collapseSpace(s) == collapseRange(s, 1, Len(s))

\* replace(/[^a-z]/g, "") on the characters lo..hi: only the letters a-z are kept
RECURSIVE keepLowerLetters(_, _, _)
keepLowerLetters(s, lo, hi) ==
  IF lo > hi THEN ""
  ELSE IF lo = hi THEN (IF Ch(s, lo) \in LowerSet THEN Ch(s, lo) ELSE "")
  ELSE keepLowerLetters(s, lo, (lo + hi) \div 2) \o keepLowerLetters(s, (lo + hi) \div 2 + 1, hi)

norm(s) == collapseSpace(toLowerCase(trim(s)))

onlyLetters(s) == keepLowerLetters(toLowerCase(s), 1, Len(s))

\* ------------------------------------------------------------------------
\* Regular-expression primitives
\* ------------------------------------------------------------------------
isWordAt(s, i) == i >= 1 /\ i <= Len(s) /\ Ch(s, i) \in WordSet

\* \b between the characters i-1 and i
boundaryAt(s, i) == isWordAt(s, i - 1) # isWordAt(s, i)

\* the length of the maximal run of characters of class C that starts at i
runLen(s, i, C) == Min({ j \in i..(Len(s) + 1) : j = Len(s) + 1 \/ Ch(s, j) \notin C }) - i

\* the position after the white space that starts at i (\s*, which a
\* following element that cannot start with white space forces to be maximal)
skipSpace(s, i) == i + runLen(s, i, SpaceSet)

startsAt(s, i, p) == i >= 1 /\ i + Len(p) - 1 <= Len(s) /\ SubSeq(s, i, i + Len(p) - 1) = p

NONE == ""

\* ------------------------------------------------------------------------
\* Entity extraction (router.ts, "Entity extraction")
\* ------------------------------------------------------------------------
\* EMAIL_RE = /[A-Z0-9._%+-]+@[A-Z0-9.-]+\.[A-Z]{2,}/gi
EmailLocalSet == LetterSet \cup DigitSet \cup {".", "_", "%", "+", "-"}
EmailDomainSet == LetterSet \cup DigitSet \cup {".", "-"}

\* the first position >= from of the run of local-part characters that ends
\* just before the "@" at a (a itself when that run is empty)
emailLocalStart(t, a, from) ==
  Min({ s \in from..a : \A k \in s..(a - 1) : Ch(t, k) \in EmailLocalSet })

\* the last position of the match whose "@" is at a, 0 when there is none:
\* the greedy domain gives back characters up to the last "." that two or
\* more letters follow
emailEnd(t, a) ==
  LET endAfter(dots) ==
        IF dots = {} THEN 0 ELSE Max(dots) + runLen(t, Max(dots) + 1, LetterSet)
  IN endAfter({ j \in (a + 2)..(a + runLen(t, a + 1, EmailDomainSet)) :
                  Ch(t, j) = "." /\ runLen(t, j + 1, LetterSet) >= 2 })

\* the leftmost match of EMAIL_RE that starts at or after from: <<first, last>>
emailMatchFrom(t, from) ==
  LET matchAt(ats) ==
        IF ats = {} THEN <<0, 0>>
        ELSE <<emailLocalStart(t, Min(ats), from), emailEnd(t, Min(ats))>>
  IN matchAt({ a \in from..Len(t) :
                 Ch(t, a) = "@" /\ emailLocalStart(t, a, from) < a /\ emailEnd(t, a) > 0 })

extractEmail(text) ==
  LET matched(m) == IF m[1] = 0 THEN NONE ELSE SubSeq(text, m[1], m[2])
  IN matched(emailMatchFrom(text, 1))

RECURSIVE stripEmailsFrom(_, _)
stripEmailsFrom(text, from) ==
  LET replaced(m) ==
        IF m[1] = 0 THEN SubSeq(text, from, Len(text))
        ELSE SubSeq(text, from, m[1] - 1) \o " " \o stripEmailsFrom(text, m[2] + 1)
  IN replaced(emailMatchFrom(text, from))

stripEmails(text) == stripEmailsFrom(text, 1)

\* /\bPS\d{5,10}\b/ on the upper-cased text
extractPartNumber(text) ==
  LET first(up, hits) ==
        IF hits = {} THEN NONE
        ELSE SubSeq(up, Min(hits), Min(hits) + 1 + runLen(up, Min(hits) + 2, DigitSet))
      match(up) ==
        first(up, { i \in 1..Len(up) :
                      /\ startsAt(up, i, "PS")
                      /\ boundaryAt(up, i)
                      /\ runLen(up, i + 2, DigitSet) \in 5..10
                      /\ boundaryAt(up, i + 2 + runLen(up, i + 2, DigitSet)) })
  IN match(toUpperCase(text))

\* /\bPS\d{1,4}\b/ on the upper-cased text
extractShortPartToken(text) ==
  LET first(up, hits) ==
        IF hits = {} THEN NONE
        ELSE SubSeq(up, Min(hits), Min(hits) + 1 + runLen(up, Min(hits) + 2, DigitSet))
      match(up) ==
        first(up, { i \in 1..Len(up) :
                      /\ startsAt(up, i, "PS")
                      /\ boundaryAt(up, i)
                      /\ runLen(up, i + 2, DigitSet) \in 1..4
                      /\ boundaryAt(up, i + 2 + runLen(up, i + 2, DigitSet)) })
  IN match(toUpperCase(text))

\* PS_IN_URL_RE = /(PS\d{5,10})/i: no word boundary, at most ten digits taken
extractPartNumberFromLinkOrText(text) ==
  LET first(up, hits) ==
        IF hits = {} THEN NONE
        ELSE SubSeq(up, Min(hits),
                    Min(hits) + 1 + Min({10, runLen(up, Min(hits) + 2, DigitSet)}))
      inUrl(up) ==
        first(up, { i \in 1..Len(up) :
                      startsAt(up, i, "PS") /\ runLen(up, i + 2, DigitSet) >= 5 })
      orElse(direct) == IF direct # NONE THEN direct ELSE inUrl(toUpperCase(text))
  IN orElse(extractPartNumber(text))

looksLikeUrl(text) ==
  LET t == toLowerCase(text)
  IN includes(t, "http://") \/ includes(t, "https://") \/ includes(t, "www.")
       \/ includes(t, ".com/") \/ includes(t, ".net/")

looksLikeRealModelToken(x) ==
  /\ x # NONE
  /\ x \notin {"NUMBER", "MODEL", "UNKNOWN", "N/A", "NULL", "NONE", "HELLO", "THANKS"}
  /\ Len(x) >= 5
  /\ Chars(x) \cap UpperSet # {}
  /\ Chars(x) \cap DigitSet # {}
  /\ ~startsAt(x, 1, "PS")
  /\ ~(Len(x) >= 8 /\ Chars(x) \subseteq DigitSet)

\* [A-Z0-9][A-Z0-9_-]{lo-1,hi-1}\b at q: the length of the greedy match, 0 when none
TokenFirstSet == UpperSet \cup DigitSet
TokenRestSet == TokenFirstSet \cup {"_", "-"}
tokenLen(s, q, lo, hi) ==
  LET longest(fits) == IF fits = {} THEN 0 ELSE Max(fits)
  IN longest({ n \in lo..hi :
                 /\ q + n - 1 <= Len(s)
                 /\ Ch(s, q) \in TokenFirstSet
                 /\ n - 1 <= runLen(s, q + 1, TokenRestSet)
                 /\ boundaryAt(s, q + n) })

\* /\bMODEL\s*(NUMBER)?\s*(IS|:)?\s*([A-Z0-9][A-Z0-9_-]{2,24})\b/ tried at p:
\* the places where group 3 may start, in the order backtracking tries them
modelPhraseStarts(up, p) ==
  LET after(b) == (IF startsAt(up, b, "IS") THEN <<skipSpace(up, b + 2)>>
                   ELSE IF startsAt(up, b, ":") THEN <<skipSpace(up, b + 1)>>
                   ELSE <<>>) \o <<b>>
      from(q0) ==
        (IF startsAt(up, q0, "NUMBER") THEN after(skipSpace(up, q0 + 6)) ELSE <<>>)
          \o after(q0)
  IN from(skipSpace(up, p + 5))

\* group 3 of the leftmost match of that expression, NONE when it has no match
modelPhraseToken(up) ==
  LET tokenAt(q) == SubSeq(up, q, q + tokenLen(up, q, 3, 25) - 1)
      firstOf(starts) ==
        tokenAt(starts[Min({ j \in DOMAIN starts : tokenLen(up, starts[j], 3, 25) > 0 })])
      hasToken(starts) == \E k \in DOMAIN starts : tokenLen(up, starts[k], 3, 25) > 0
      leftmost(ps) == IF ps = {} THEN NONE ELSE firstOf(modelPhraseStarts(up, Min(ps)))
  IN leftmost({ p \in 1..Len(up) :
                  /\ startsAt(up, p, "MODEL")
                  /\ boundaryAt(up, p)
                  /\ hasToken(modelPhraseStarts(up, p)) })

\* the candidates of MODEL_TOKEN_RE = /\b[A-Z0-9][A-Z0-9_-]{4,23}\b/g from i on,
\* left to right: the first that looks like a model number and is no noise word
RECURSIVE scanModelTokens(_, _)
scanModelTokens(up, i) ==
  LET try(j, token) ==
        IF looksLikeRealModelToken(token)
             /\ token \notin {"DRAIN", "INSTALL", "REFUND", "RETURN"}
        THEN token
        ELSE scanModelTokens(up, j + tokenLen(up, j, 5, 24))
      next(j) == try(j, SubSeq(up, j, j + tokenLen(up, j, 5, 24) - 1))
      scan(starts) == IF starts = {} THEN NONE ELSE next(Min(starts))
  IN scan({ j \in i..Len(up) : boundaryAt(up, j) /\ tokenLen(up, j, 5, 24) > 0 })

extractModelNumber(text) ==
  LET pick(up, token) ==
        IF token # NONE /\ ~startsAt(token, 1, "PS") /\ looksLikeRealModelToken(token)
        THEN token
        ELSE scanModelTokens(up, 1)
      match(up) == pick(up, modelPhraseToken(up))
  IN match(toUpperCase(stripEmails(text)))

\* ORDER_RE = /\b(ORD|ORDER)\s*#?\s*([A-Z0-9-]{5,20})\b/i
OrderIdSet == UpperSet \cup DigitSet \cup {"-"}

\* where group 2 starts when the keyword ends just before b
orderIdStart(up, b) ==
  LET from(q) == IF startsAt(up, q, "#") THEN skipSpace(up, q + 1) ELSE q
  IN from(skipSpace(up, b))

orderIdLen(up, g) ==
  LET longest(fits) == IF fits = {} THEN 0 ELSE Max(fits)
  IN longest({ n \in 5..20 : n <= runLen(up, g, OrderIdSet) /\ boundaryAt(up, g + n) })

\* the keyword ends tried at p, ORD before ORDER
orderKeywordEnds(up, p) ==
  <<p + 3>> \o (IF startsAt(up, p, "ORDER") THEN <<p + 5>> ELSE <<>>)

extractOrderId(text) ==
  LET idAt(up, g) == SubSeq(up, g, g + orderIdLen(up, g) - 1)
      ok(up, e) == orderIdLen(up, orderIdStart(up, e)) > 0
      firstOf(up, ends) ==
        idAt(up, orderIdStart(up, ends[Min({ j \in DOMAIN ends : ok(up, ends[j]) })]))
      leftmost(up, ps) == IF ps = {} THEN NONE ELSE firstOf(up, orderKeywordEnds(up, Min(ps)))
      hasId(up, ends) == \E k \in DOMAIN ends : ok(up, ends[k])
      match(up) ==
        leftmost(up, { p \in 1..Len(up) :
                         /\ startsAt(up, p, "ORD")
                         /\ boundaryAt(up, p)
                         /\ hasId(up, orderKeywordEnds(up, p)) })
  IN match(toUpperCase(text))

\* ZIP_RE = /\b\d{5}(?:-\d{4})?\b/
digitsAt(s, p, n) == p + n - 1 <= Len(s) /\ \A k \in p..(p + n - 1) : Ch(s, k) \in DigitSet

zipLen(s, p) ==
  IF ~(boundaryAt(s, p) /\ digitsAt(s, p, 5)) THEN 0
  ELSE IF startsAt(s, p + 5, "-") /\ digitsAt(s, p + 6, 4) /\ boundaryAt(s, p + 10) THEN 10
  ELSE IF boundaryAt(s, p + 5) THEN 5
  ELSE 0

extractZip(text) ==
  LET first(ps) ==
        IF ps = {} THEN NONE ELSE SubSeq(text, Min(ps), Min(ps) + zipLen(text, Min(ps)) - 1)
  IN first({ p \in 1..Len(text) : zipLen(text, p) > 0 })

\* ------------------------------------------------------------------------
\* Signals and intent inference
\* ------------------------------------------------------------------------
inferApplianceFromText(text) ==
  LET t == toLowerCase(text)
  IN IF \/ includes(t, "dishwasher") \/ includes(t, "wdt") \/ includes(t, "kdf")
        \/ includes(t, "not draining") \/ includes(t, "drain") \/ includes(t, "spray arm")
        \/ includes(t, "sump") \/ includes(t, "air gap") \/ includes(t, "high loop")
     THEN "dishwasher"
     ELSE IF \/ includes(t, "fridge") \/ includes(t, "refrigerator") \/ includes(t, "freezer")
             \/ includes(t, "ice maker") \/ includes(t, "icemaster") \/ includes(t, "defrost")
             \/ includes(t, "evaporator") \/ includes(t, "not cooling")
     THEN "refrigerator"
     ELSE "unknown"

wantsAlternatives(text) ==
  LET t == toLowerCase(text)
  IN \/ includes(t, "alternative") \/ includes(t, "alternatives") \/ includes(t, "substitute")
     \/ includes(t, "replace with") \/ includes(t, "other option")

wantsHuman(text) ==
  LET t == toLowerCase(text)
  IN \/ includes(t, "human") \/ includes(t, "real person") \/ includes(t, "live agent")
     \/ includes(t, "agent") \/ includes(t, "representative") \/ includes(t, "customer service")
     \/ includes(t, "support") \/ includes(t, "talk to someone") \/ includes(t, "live chat")

looksLikeSmallTalk(text) ==
  norm(text) \in {"hi", "hello", "help", "hello?", "hey", "hello world", "confused"}

looksLikeAck(text) ==
  onlyLetters(text) \in {"ok", "okay", "k", "kk", "thanks", "thankyou", "thx", "cool",
                         "gotit", "great", "nice", "perfect"}

wantsReturnRefundShipping(text) ==
  LET t == toLowerCase(text)
  IN \/ includes(t, "order") \/ includes(t, "shipping") \/ includes(t, "deliver")
     \/ includes(t, "delivery") \/ includes(t, "return") \/ includes(t, "refund")
     \/ includes(t, "exchange")

\* INTENT_KEYWORDS_RE.test: one of the keywords as a whole word, any case
IntentKeywords ==
  {"compatibility", "compatible", "install", "installation", "troubleshoot",
   "troubleshooting", "order", "shipping", "return", "refund", "human", "agent",
   "representative", "customer service", "support"}

hasGlobalIntentKeyword(text) ==
  LET t == toLowerCase(text)
  IN \E k \in IntentKeywords : \E i \in 1..Len(t) :
       startsAt(t, i, k) /\ boundaryAt(t, i) /\ boundaryAt(t, i + Len(k))

\* the inference that looks for a part number first
inferIntentPartFirst(text) ==
  LET t == toLowerCase(text)
  IN IF wantsHuman(t) THEN "order_support"
     ELSE IF wantsAlternatives(t) THEN "part_lookup"
     ELSE IF extractPartNumberFromLinkOrText(text) # NONE THEN "part_lookup"
     ELSE IF \/ includes(t, "install") \/ includes(t, "how do i install")
             \/ includes(t, "installation") \/ includes(t, "replacement")
             \/ includes(t, "replace") \/ includes(t, "remove") \/ includes(t, "swap")
     THEN "installation_help"
     ELSE IF \/ includes(t, "compatible") \/ includes(t, "compatibility")
             \/ includes(t, "fit my model") \/ includes(t, "fits my model")
     THEN "compatibility_check"
     ELSE IF \/ wantsReturnRefundShipping(t) \/ extractOrderId(text) # NONE
             \/ extractZip(text) # NONE
     THEN "order_support"
     ELSE IF \/ includes(t, "not working") \/ includes(t, "won't") \/ includes(t, "doesn't")
             \/ includes(t, "troubleshoot") \/ includes(t, "fix") \/ includes(t, "not cooling")
             \/ includes(t, "not draining") \/ includes(t, "leak") \/ includes(t, "error code")
             \/ includes(t, "e:") \/ includes(t, "f:") \/ includes(t, "beeping")
     THEN "troubleshooting"
     ELSE "unknown"

inferIntent(text) ==
  LET t == toLowerCase(text)
  IN IF wantsHuman(t) THEN "order_support"
     ELSE IF \/ includes(t, "install") \/ includes(t, "how do i install")
             \/ includes(t, "installation") \/ includes(t, "replacement")
             \/ includes(t, "replace") \/ includes(t, "remove") \/ includes(t, "swap")
     THEN "installation_help"
     ELSE IF \/ includes(t, "compatible") \/ includes(t, "compatibility")
             \/ includes(t, "fit my model") \/ includes(t, "fits my model")
     THEN "compatibility_check"
     ELSE IF wantsAlternatives(t) THEN "part_lookup"
     ELSE IF extractPartNumberFromLinkOrText(text) # NONE THEN "part_lookup"
     ELSE IF \/ wantsReturnRefundShipping(t) \/ extractOrderId(text) # NONE
             \/ extractZip(text) # NONE
     THEN "order_support"
     ELSE IF \/ includes(t, "not working") \/ includes(t, "won't") \/ includes(t, "doesn't")
             \/ includes(t, "troubleshoot") \/ includes(t, "fix") \/ includes(t, "not cooling")
             \/ includes(t, "not draining") \/ includes(t, "leak") \/ includes(t, "error code")
             \/ includes(t, "e:") \/ includes(t, "f:") \/ includes(t, "beeping")
     THEN "troubleshooting"
     ELSE "unknown"

isClearIntentShift(text) ==
  IF text = "" THEN FALSE
  ELSE \/ wantsHuman(text) \/ wantsAlternatives(text)
       \/ extractEmail(text) # NONE
       \/ extractOrderId(text) # NONE \/ extractZip(text) # NONE
       \/ extractPartNumberFromLinkOrText(text) # NONE
       \/ extractModelNumber(text) # NONE
       \/ inferIntent(text) \in {"compatibility_check", "installation_help", "troubleshooting",
                                  "order_support", "part_lookup"}

\* ------------------------------------------------------------------------
\* The parsers of the follow-up answers.  A ternary boolean | null result is
\* "true", "false" or "null"; a null of a closed set of words is "null".
\* ------------------------------------------------------------------------
isInstallQuickReply(text) ==
  norm(text) \in {"panel", "clamps", "clamp", "connector", "screws", "clips", "spring",
                  "spring clamp", "screw", "screw clamp", "top", "side", "stuck", "moving",
                  "totally stuck"}

parseYesNo(text) ==
  LET t == onlyLetters(text)
  IN IF t \in {"yes", "y", "yeah", "yep", "sure", "correct"} THEN "true"
     ELSE IF t \in {"no", "n", "nope", "nah", "notreally"} THEN "false"
     ELSE "null"

parseChoice(text) ==
  LET t == norm(text)
  IN IF includes(t, "compat") THEN "compatibility"
     ELSE IF includes(t, "install") THEN "install"
     ELSE IF \/ includes(t, "symptom") \/ includes(t, "issue") \/ includes(t, "problem")
             \/ includes(t, "trouble")
     THEN "symptom"
     ELSE "null"

parseClampType(text) ==
  LET t == norm(text)
  IN IF includes(t, "spring") THEN "spring"
     ELSE IF includes(t, "screw") THEN "screw"
     ELSE "null"

parseDrainSpeed(text) ==
  LET t == norm(text)
  IN IF \/ includes(t, "standing") \/ includes(t, "still water")
        \/ includes(t, "full of water") \/ t = "standing water"
     THEN "standing"
     ELSE IF \/ includes(t, "slow") \/ includes(t, "slowly") \/ includes(t, "drain slowly")
             \/ includes(t, "drains slowly")
     THEN "slow"
     ELSE "null"

\* the parser without its rule for humming and buzzing
parsePumpSoundNoHumming(text) ==
  LET t == norm(text)
      yn == parseYesNo(text)
  IN IF yn = "true" THEN "running"
     ELSE IF yn = "false" THEN "silent"
     ELSE IF \/ includes(t, "silent") \/ includes(t, "no sound") \/ includes(t, "quiet")
             \/ includes(t, "totally silent")
     THEN "silent"
     ELSE IF \/ includes(t, "running") \/ includes(t, "normal") \/ includes(t, "i hear it")
             \/ includes(t, "hear it")
     THEN "running"
     ELSE "unknown"

parsePumpSound(text) ==
  LET t == norm(text)
      yn == parseYesNo(text)
  IN IF yn = "true" THEN "running"
     ELSE IF yn = "false" THEN "silent"
     ELSE IF \/ includes(t, "hum") \/ includes(t, "buzz") \/ includes(t, "humming")
             \/ includes(t, "buzzing")
     THEN "humming"
     ELSE IF \/ includes(t, "silent") \/ includes(t, "no sound") \/ includes(t, "quiet")
             \/ includes(t, "totally silent")
     THEN "silent"
     ELSE IF \/ includes(t, "running") \/ includes(t, "normal") \/ includes(t, "i hear it")
             \/ includes(t, "hear it")
     THEN "running"
     ELSE "unknown"

parsePanelFastener(text) ==
  LET t == norm(text)
  IN IF includes(t, "screw") THEN "screws"
     ELSE IF includes(t, "clip") THEN "clips"
     ELSE "null"

parseLatchSide(text) ==
  LET t == norm(text)
  IN IF includes(t, "top") THEN "top"
     ELSE IF includes(t, "side") THEN "side"
     ELSE "null"

parseMovingOrStuck(text) ==
  LET t == norm(text)
  IN IF includes(t, "moving") THEN "moving"
     ELSE IF includes(t, "stuck") THEN "stuck"
     ELSE "unknown"

parseDrainHoseSetup(text) ==
  LET t == norm(text)
  IN IF includes(t, "air gap") \/ includes(t, "airgap") THEN "air_gap"
     ELSE IF includes(t, "high loop") \/ (includes(t, "loop") /\ includes(t, "high"))
     THEN "high_loop"
     ELSE IF \/ includes(t, "sink") \/ includes(t, "disposal") \/ includes(t, "garbage disposal")
     THEN "sink_connection"
     ELSE IF includes(t, "neither") \/ includes(t, "none") THEN "neither"
     ELSE "unknown"

parseSinkConnectionType(text) ==
  LET t == norm(text)
  IN IF includes(t, "disposal") \/ includes(t, "garbage") THEN "disposal"
     ELSE IF \/ includes(t, "tailpiece") \/ includes(t, "tail piece") \/ includes(t, "sink")
     THEN "tailpiece"
     ELSE "unknown"

\* ------------------------------------------------------------------------
\* Dialog state: the slot that the text of an assistant turn leaves open
\* ------------------------------------------------------------------------
Slot(k) == [kind |-> k]
OrderSlot(a) == [kind |-> "order_info", ask |-> a]
ChoiceSlot == [kind |-> "choice", options |-> <<"compatibility", "install", "symptom">>]
\* Awaiting = null
NoSlot == [kind |-> "none"]

\* the rule table of inferDialogState on a, the lower-cased text of the last
\* assistant turn; first match wins
dialogStateOfText(a) ==
  IF a = "" THEN NoSlot
  ELSE IF /\ (includes(a, "leaving standing water") \/ includes(a, "standing water"))
          /\ (\/ includes(a, "drain slowly") \/ includes(a, "drains slowly")
              \/ includes(a, "drain is slow") \/ includes(a, "slow"))
  THEN Slot("dishwasher_drain_speed")
  ELSE IF includes(a, "is it leaving standing water") /\ includes(a, "or does it drain slowly")
  THEN Slot("dishwasher_drain_speed")
  ELSE IF includes(a, "which one is it: standing water") /\ includes(a, "drains slowly")
  THEN Slot("dishwasher_drain_speed")
  ELSE IF \/ (includes(a, "do you hear the drain pump") /\ includes(a, "(yes/no)"))
          \/ (/\ includes(a, "pump") /\ includes(a, "running")
              /\ includes(a, "humming") /\ includes(a, "silent"))
          \/ (includes(a, "humming") /\ includes(a, "totally silent"))
          \/ (includes(a, "running, humming") /\ includes(a, "totally silent"))
  THEN Slot("pump_sound")
  ELSE IF (includes(a, "high loop") \/ includes(a, "air gap")) /\ includes(a, "under the sink")
  THEN Slot("drain_hose_setup")
  ELSE IF (includes(a, "garbage disposal") \/ includes(a, "disposal"))
          /\ includes(a, "sink tailpiece")
  THEN Slot("sink_connection_type")
  ELSE IF includes(a, "strong water flow") /\ includes(a, "(yes/no)")
  THEN Slot("disposal_flow_yesno")
  ELSE IF includes(a, "knockout plug") /\ includes(a, "(yes/no)")
  THEN Slot("disposal_knockout_yesno")
  ELSE IF includes(a, "disconnect") /\ includes(a, "tailpiece") /\ includes(a, "(yes/no)")
  THEN Slot("tailpiece_gunk_yesno")
  ELSE IF /\ (\/ includes(a, "does it drain") \/ includes(a, "drain normally")
              \/ includes(a, "fixed"))
          /\ includes(a, "(yes/no)")
  THEN [kind |-> "did_it_fix_yesno", context |-> "drain_issue"]
  ELSE IF /\ (includes(a, "tell me what you want to solve") \/ includes(a, "what you want to solve"))
          /\ includes(a, "compatibility") /\ includes(a, "install") /\ includes(a, "symptom")
  THEN ChoiceSlot
  ELSE IF includes(a, "compatibility/install/symptom") THEN ChoiceSlot
  ELSE IF \/ includes(a, "which step are you on: panel, clamps, or connector")
          \/ includes(a, "which step is blocking you")
          \/ includes(a, "which part is giving you trouble: the panel, hose clamps, or the electrical connector")
          \/ (/\ includes(a, "panel") /\ includes(a, "clamps")
              /\ includes(a, "connector") /\ includes(a, "?"))
  THEN Slot("install_step")
  ELSE IF includes(a, "do you see screws") /\ (includes(a, "clips") \/ includes(a, "plastic clips"))
  THEN Slot("panel_fastener")
  ELSE IF includes(a, "spring clamp") /\ includes(a, "screw clamp") THEN Slot("clamp_type")
  ELSE IF includes(a, "do you see a latch") /\ includes(a, "top") /\ includes(a, "side")
  THEN Slot("connector_latch_side")
  ELSE IF includes(a, "where is the latch") /\ includes(a, "top") /\ includes(a, "side")
  THEN Slot("connector_latch_side")
  ELSE IF includes(a, "panel still won^t drop") \/ includes(a, "panel still won't drop")
  THEN Slot("panel_still_wont_drop_yesno")
  ELSE IF includes(a, "is it moving at all") /\ includes(a, "totally stuck")
  THEN Slot("connector_moving_or_stuck")
  ELSE IF includes(a, "order number") /\ includes(a, "zip") THEN OrderSlot("both")
  ELSE IF includes(a, "order number") THEN OrderSlot("order_id")
  ELSE IF includes(a, "zip code") \/ includes(a, "postal code") THEN OrderSlot("zip")
  ELSE IF includes(a, "is the freezer also warming up") THEN Slot("fridge_freezer_warming_yesno")
  ELSE NoSlot

isAwaitingInstall(awaiting) ==
  awaiting.kind \in {"install_step", "clamp_type", "panel_fastener", "connector_latch_side",
                     "panel_still_wont_drop_yesno", "connector_moving_or_stuck"}

isAwaitingTroubleshoot(awaiting) ==
  awaiting.kind \in {"pump_sound", "dishwasher_drain_speed", "drain_hose_setup",
                     "sink_connection_type", "disposal_flow_yesno", "disposal_knockout_yesno",
                     "tailpiece_gunk_yesno", "did_it_fix_yesno"}

isAwaitingOrder(awaiting) == awaiting.kind = "order_info"

\* handoffPending on the text of the last assistant turn
handoffPendingText(content) ==
  LET t == toLowerCase(content)
      asksEmail == \/ includes(t, "send your email") \/ includes(t, "share your email")
                   \/ includes(t, "your email")
      mentionsTicket == \/ includes(t, "ticket") \/ includes(t, "human follow-up")
                        \/ includes(t, "human") \/ includes(t, "support")
  IN asksEmail /\ mentionsTicket

\* the aAsked test of detectInstallStepFollowup on the text of the last assistant turn
installStepAsked(content) ==
  LET a == toLowerCase(content)
  IN \/ includes(a, "which step is blocking you")
     \/ includes(a, "which step are you on: panel, clamps, or connector")
     \/ (includes(a, "panel") /\ includes(a, "clamps") /\ includes(a, "connector"))

\* the step that detectInstallStepFollowup reads from the user's message
\* ("null" when it names none or is a clear shift)
installStepOfMessage(userMessage) ==
  LET u == toLowerCase(userMessage)
  IN IF \/ hasGlobalIntentKeyword(u)
        \/ extractPartNumberFromLinkOrText(userMessage) # NONE
        \/ extractModelNumber(userMessage) # NONE
        \/ wantsReturnRefundShipping(userMessage)
     THEN "shift"
     ELSE IF \/ includes(u, "panel") \/ includes(u, "kickplate") \/ includes(u, "access panel")
             \/ includes(u, "toe kick")
     THEN "panel"
     ELSE IF \/ includes(u, "clamp") \/ includes(u, "clamps") \/ includes(u, "hose clamp")
             \/ includes(u, "pliers")
     THEN "clamps"
     ELSE IF \/ includes(u, "connector") \/ includes(u, "wire") \/ includes(u, "harness")
             \/ includes(u, "plug")
     THEN "connector"
     ELSE "null"

\* ------------------------------------------------------------------------
\* Reply texts
\* ------------------------------------------------------------------------
replyInstallStepHelp(step) ==
  IF step = "panel"
  THEN "For the access panel: it^s usually a couple screws along the bottom edge. "
       \o "If it won^t drop, check for hidden clips near the sides. "
       \o "Do you see screws, or plastic clips?"
  ELSE IF step = "clamps"
  THEN "For hose clamps: pliers help ~ squeeze, slide the clamp back, then twist the hose gently to break the seal. "
       \o "Avoid yanking straight (it can tear the hose). "
       \o "Is it a spring clamp (two tabs) or a screw clamp?"
  ELSE IF step = "connector"
  THEN "For the connector: most have a small locking tab. Press the tab in while pulling straight out. "
       \o "If it^s stuck, wiggle gently ~ don^t pull on the wires. "
       \o "Do you see a latch on the top or side?"
  ELSE "Which step are you on: panel, clamps, or connector?"

replyPanelFastenerHelp(kind) ==
  IF kind = "screws"
  THEN "Got it ~ screws.\n"
       \o "Tip: check the very bottom edge + corners (some are tucked under the toe-kick). If they^re Torx, you may need a T15/T20 bit.\n"
       \o "After removing screws, the panel usually tilts out then drops down.\n\n"
       \o "Do the screws come out but the panel still won^t drop?"
  ELSE "Got it ~ clips.\n"
       \o "Tip: pull the panel slightly forward and then down. A plastic pry tool (or a taped flathead) helps avoid cracking.\n\n"
       \o "Do you see clip tabs on the left/right edges, or along the top seam?"

replyConnectorLatchHelp(side) ==
  IF side = "top"
  THEN "Latch on TOP: press the top tab down/in firmly, then pull the connector straight off.\n"
       \o "If it^s tight, push the connector *in* a hair first, then press tab, then pull.\n\n"
       \o "Is it moving at all, or totally stuck?"
  ELSE "Latch on SIDE: pinch/press the side tab inward while pulling straight out.\n"
       \o "Same trick: push in slightly first | press tab | pull.\n\n"
       \o "Is it moving at all, or totally stuck?"

replyHome ==
  "Hi! I can help with refrigerator and dishwasher parts on PartSelect ~ part info, compatibility, installation, and troubleshooting.\n\n"
  \o "Try:\n"
  \o "& <Is PS11752778 compatible with my WDT780SAEM1 model?>\n"
  \o "& <How can I install part number PS11752778?>"

replyAskForFullPart(shortToken) ==
  "What^s the full PartSelect part number (starts with PS$)?"
  \o (IF shortToken # NONE
      THEN "\n\nI saw \"" \o shortToken \o "\" ~ part numbers usually look like PS + 5%10 digits."
      ELSE "")

compactInstallSteps(partNumber, modelNumber) ==
  "Quick install outline for " \o partNumber
  \o (IF modelNumber # NONE THEN " (model " \o modelNumber \o ")" ELSE "") \o ":\n"
  \o "1) Turn off power (and water if needed)\n"
  \o "2) Remove the lower access panel\n"
  \o "3) Take a photo of wires/hoses\n"
  \o "4) Disconnect hose clamps + connector\n"
  \o "5) Swap the part, reassemble, run a short test\n\n"
  \o "Which step are you on: panel, clamps, or connector?"

compactInstallRepeatVariant(partNumber, modelNumber, repeats) ==
  LET modelLine == IF modelNumber # NONE THEN " (" \o modelNumber \o ")" ELSE ""
  IN IF repeats % 2 = 0
     THEN "Looks like we^re still on the install for " \o partNumber \o modelLine \o ".\n"
          \o "Want help with panel, clamps, or connector?"
     ELSE "No worries ~ continuing " \o partNumber \o modelLine \o " install.\n"
          \o "Which step is blocking you: panel, clamps, or connector?"

\* the reply built around the first guide's snippet
replyInstallBrief(partNumber, modelNumber, snippet) ==
  "For " \o partNumber \o (IF modelNumber # NONE THEN " (" \o modelNumber \o ")" ELSE "")
  \o ", a key step is usually:\n"
  \o SubSeq(collapseSpace(snippet), 1, Min({220, Len(collapseSpace(snippet))}))
  \o (IF Len(snippet) > 220 THEN "$" ELSE "") \o "\n\n"
  \o "Which step are you on: panel, clamps, or connector?"

troubleshootDishwasher(modelNumber, repeated) ==
  (IF modelNumber # NONE
   THEN "Dishwasher not draining (" \o modelNumber \o ") ~ quick checks:"
   ELSE "Dishwasher not draining ~ quick checks:") \o "\n"
  \o "- Clean the filter/sump area\n"
  \o "- Check drain hose for kinks/clogs\n"
  \o "- Make sure the disposal knockout plug is removed\n\n"
  \o "When it tries to drain, do you hear the drain pump running? (yes/no)"
  \o (IF repeated
      THEN "\n\nIf you already tried those: share any error code, and whether the pump is silent, humming, or normal."
      ELSE "")

troubleshootDishwasherDrainPumpFollowup(hearsPump) ==
  IF hearsPump
  THEN "Got it ~ pump is running.\n"
       \o "That usually points to a blockage or drain path issue:\n"
       \o "- Check the sink/disposal connection (knockout plug)\n"
       \o "- Inspect the drain hose loop for kinks / gunk\n"
       \o "- If accessible, check the check-valve / drain outlet for debris\n\n"
       \o "Is it leaving standing water, or does it drain slowly?"
  ELSE "OK ~ pump is NOT running.\n"
       \o "That^s more like power/control or a failed pump:\n"
       \o "- Do you hear any hum/click when it tries to drain?\n"
       \o "- Any error code showing?\n"
       \o "- Confirm the door latch is fully closing\n\n"
       \o "If you share the model, I can suggest the best next check."

troubleshootDishwasherDrainSpeedFollowup(kind) ==
  IF kind = "slow"
  THEN "Drain is slow ~ usually partial blockage.\n"
       \o "- Inspect drain hose for kinks + buildup\n"
       \o "- Check the sink/disposal connection for gunk\n"
       \o "- Clean filter/sump again + look for debris at the drain outlet\n\n"
       \o "Quick check: does your drain hose have a high loop / air gap under the sink?"
  ELSE "Standing water ~ closer to a full blockage or a stuck check-valve.\n"
       \o "- Verify disposal knockout plug is removed\n"
       \o "- Check drain hose for a hard clog\n"
       \o "- If accessible, check-valve at the pump outlet may be stuck\n\n"
       \o "When it tries to drain, is it humming/buzzing, or totally silent?"

troubleshootDishwasherHoseSetupFollowup(kind) ==
  IF kind = "high_loop"
  THEN "Nice ~ high loop is good.\n"
       \o "Next most common culprit is the sink/disposal connection:\n"
       \o "- If connected to a garbage disposal, confirm the knockout plug was removed\n"
       \o "- Pull the drain hose off and check for gunk at the inlet\n"
       \o "- Check the hose itself for a partial clog (food/grease)\n\n"
       \o "Are you connected to a garbage disposal, or directly to the sink tailpiece?"
  ELSE IF kind = "air_gap"
  THEN "Air gap setup ~ good.\n"
       \o "If draining is slow, the air gap or hose after it may be partially clogged.\n"
       \o "Quick check:\n"
       \o "- Pop the air-gap cap and look for debris\n"
       \o "- Inspect the hose from air gap | disposal/tailpiece for buildup\n\n"
       \o "Do you see any gunk in the air gap, or is it clean?"
  ELSE IF kind = "sink_connection"
  THEN "Got it ~ let^s focus on the sink/disposal side.\n"
       \o "Common issue: disposal knockout plug still in place, or sludge clog at the inlet.\n\n"
       \o "Are you draining into a garbage disposal, or directly to the sink tailpiece?"
  ELSE IF kind = "neither"
  THEN "If there^s no high loop / air gap, slow drain can happen from backflow.\n"
       \o "Easy fix: add a high loop (strap the hose up under the counter as high as possible).\n\n"
       \o "After you add the loop, does draining improve? (yes/no)"
  ELSE "Do you have a high loop, an air gap, or neither? (And is it connected to the sink tailpiece or garbage disposal?)"

replyDidItFixClose(yes) ==
  IF yes
  THEN "Awesome ~ sounds like it^s draining normally now. [\n\n"
       \o "Anything else you want to do?\n"
       \o "- check compatibility (PS$ + model)\n"
       \o "- installation steps\n"
       \o "- another symptom"
  ELSE "Got it ~ still not draining right.\n"
       \o "At this point the usual next suspects are:\n"
       \o "- blockage at pump inlet / sump\n"
       \o "- stuck check valve\n"
       \o "- weak/failing drain pump\n\n"
       \o "Do you want to keep troubleshooting here, or do you want a human follow-up? (type <human>)"

troubleshootDishwasherSinkConnectionFollowup(kind) ==
  IF kind = "disposal"
  THEN "Connected to a garbage disposal ~ biggest gotcha is the knockout plug.\n"
       \o "Quick checks:\n"
       \o "- Remove the drain hose at the disposal inlet and look inside for the knockout plug\n"
       \o "- Clean sludge at the disposal inlet nipple\n"
       \o "- Run disposal briefly + flush hot water\n\n"
       \o "If you remove the hose, do you see strong water flow from the dishwasher when it tries to drain (yes/no)?"
  ELSE IF kind = "tailpiece"
  THEN "Connected to the sink tailpiece.\n"
       \o "Quick checks:\n"
       \o "- Check the tailpiece branch nipple for gunk (common)\n"
       \o "- Ensure the hose clamp isn^t pinching the hose\n"
       \o "- Confirm the hose has no sagging low-spot holding water\n\n"
       \o "If you disconnect the hose at the tailpiece, is it clogged with gunk (yes/no)?"
  ELSE "Are you connected to a garbage disposal, or directly to the sink tailpiece?"

replyDisposalFlowYesNo(yes) ==
  IF yes
  THEN "Good ~ that means the dishwasher *is* pumping strongly.\n"
       \o "So the slowdown is almost certainly AFTER the dishwasher:\n"
       \o "- disposal inlet nipple gunk\n"
       \o "- OR the disposal knockout plug still inside\n\n"
       \o "When you look into the disposal inlet (where the hose connects), is the knockout plug already removed? (yes/no)"
  ELSE "If there^s weak/no flow at the hose, that points upstream:\n"
       \o "- drain hose clogged/kinked\n"
       \o "- sump/pump inlet blocked\n"
       \o "- check valve stuck\n\n"
       \o "Quick check: if you remove the hose and try draining into a bucket, do you get *any* water at all? (yes/no)"

replyDisposalKnockoutYesNo(yes) ==
  IF yes
  THEN "Nice ~ knockout is removed.\n"
       \o "Next: clean the disposal inlet nipple + the first few inches of hose (it often cakes up with sludge).\n\n"
       \o "After cleaning, does it drain normally now? (yes/no)"
  ELSE "That^s likely the whole issue.\n"
       \o "Remove the knockout plug (usually punch it through with a screwdriver, then fish it out).\n"
       \o "Reconnect hose, run disposal briefly, then test drain.\n\n"
       \o "After removing the knockout plug, does it drain normally now? (yes/no)"

replyTailpieceGunkYesNo(yes) ==
  IF yes
  THEN "Yep ~ that^ll do it.\n"
       \o "Clean the tailpiece nipple + hose end (bottle brush works), reconnect, and test.\n\n"
       \o "After cleaning, does it drain normally now? (yes/no)"
  ELSE "If there^s no gunk there, next suspects are:\n"
       \o "- partial clog somewhere in the hose\n"
       \o "- blockage at pump/check valve\n\n"
       \o "After re-connecting everything, does it drain normally now? (yes/no)"

replyOrderIntake(ask) ==
  IF ask = "both"
  THEN "To help with order status/returns (demo), send your order number and ZIP code.\nExample: ORDER #A1B2C3 19104"
  ELSE IF ask = "order_id" THEN "Send your order number (demo).\nExample: ORDER #A1B2C3"
  ELSE "Send the ZIP code on the order (demo).\nExample: 19104"

replyOrderStub(orderId, zip) ==
  "Got it (" \o (IF orderId # NONE THEN "order=" \o orderId ELSE "order=n/a") \o ", "
  \o (IF zip # NONE THEN "zip=" \o zip ELSE "zip=n/a")
  \o "). In this demo I can^t access real order systems, but I can still help you choose the right path:\n"
  \o "- shipping delay / tracking\n"
  \o "- return / refund policy steps\n"
  \o "- wrong part ordered (compatibility check)\n\n"
  \o "Which one is it: shipping, return/refund, or wrong part?"

\* The replies written inline in handleChatTurn
replyOutOfDomain ==
  "I^m focused on PartSelect refrigerator and dishwasher parts (compatibility, install, troubleshooting, basic order support).\n"
  \o "If you share a PS part number or model number, I can help from there."

replyTicketOpened(ticketId) ==
  "Got it ~ I opened a support ticket for human follow-up (demo).\n"
  \o "Ticket: " \o ticketId \o "\n\n"
  \o "While you wait, tell me what you want to solve (compatibility, install, or the symptom) and I can keep helping."

replyAskEmail ==
  "Sure ~ I can set up a human follow-up (demo ticket).\n"
  \o "Just send your email in the next message.\n"
  \o "Example: \"name@email.com WDT780SAEM1 PS11752778\""

\* the reply to a pure acknowledgement, by the open slot
replyAck(awaiting) ==
  LET k == awaiting.kind
  IN IF k = "order_info" THEN replyOrderIntake(awaiting.ask)
     ELSE IF k = "pump_sound" THEN "When it tries to drain, is the pump running, humming/buzzing, or totally silent?"
     ELSE IF k = "dishwasher_drain_speed" THEN "Which one is it: standing water, or drains slowly?"
     ELSE IF k = "drain_hose_setup"
     THEN "Do you have a high loop, an air gap, or neither? (And is it connected to the sink tailpiece or garbage disposal?)"
     ELSE IF k = "sink_connection_type" THEN "Are you connected to a garbage disposal, or directly to the sink tailpiece?"
     ELSE IF k = "disposal_flow_yesno" THEN "Do you see strong water flow from the dishwasher when it tries to drain (yes/no)?"
     ELSE IF k = "disposal_knockout_yesno" THEN "Is the disposal knockout plug already removed? (yes/no)"
     ELSE IF k = "tailpiece_gunk_yesno" THEN "If you disconnect the hose at the tailpiece, is it clogged with gunk (yes/no)?"
     ELSE IF k = "did_it_fix_yesno" THEN "After that change, does it drain normally now? (yes/no)"
     ELSE IF k = "install_step" THEN "Which step are you on: panel, clamps, or connector?"
     ELSE IF k = "clamp_type" THEN "Is it a spring clamp (two tabs) or a screw clamp?"
     ELSE IF k = "panel_fastener" THEN "Do you see screws, or plastic clips?"
     ELSE IF k = "connector_latch_side" THEN "Is the latch on the top, or on the side?"
     ELSE IF k = "panel_still_wont_drop_yesno" THEN "Do the screws come out but the panel still won^t drop? (yes/no)"
     ELSE IF k = "connector_moving_or_stuck" THEN "Is it moving at all, or totally stuck?"
     ELSE "] Okay. Want help with compatibility, installation, troubleshooting, order support, or a PS part number?"

\* the reply of a slot's own handler to an answer it cannot parse
replyReask(awaiting) ==
  LET k == awaiting.kind
  IN IF k = "order_info" THEN replyOrderIntake(awaiting.ask)
     ELSE IF k = "dishwasher_drain_speed" THEN "Which one is it: standing water, or drains slowly?"
     ELSE IF k = "fridge_freezer_warming_yesno" THEN "Is the freezer also warming up? (yes/no)"
     ELSE IF k = "pump_sound" THEN "When it tries to drain, is the pump running, humming/buzzing, or totally silent?"
     ELSE IF k = "drain_hose_setup"
     THEN "Do you have a high loop, an air gap, or neither? (And is it connected to the sink tailpiece or garbage disposal?)"
     ELSE IF k = "sink_connection_type" THEN "Are you connected to a garbage disposal, or directly to the sink tailpiece?"
     ELSE IF k = "disposal_flow_yesno" THEN "Do you see strong water flow from the dishwasher when it tries to drain (yes/no)?"
     ELSE IF k = "disposal_knockout_yesno" THEN "Is the disposal knockout plug already removed? (yes/no)"
     ELSE IF k = "tailpiece_gunk_yesno" THEN "If you disconnect the hose at the tailpiece, is it clogged with gunk (yes/no)?"
     ELSE IF k = "did_it_fix_yesno" THEN "After that change, does it drain normally now? (yes/no)"
     ELSE IF k = "choice" THEN "Which one do you want to work on: compatibility, install, or the symptom?"
     ELSE IF k = "panel_fastener" THEN "Do you see screws, or plastic clips?"
     ELSE IF k = "clamp_type" THEN "Is it a spring clamp (two tabs) or a screw clamp?"
     ELSE IF k = "panel_still_wont_drop_yesno" THEN "Do the screws come out but the panel still won^t drop? (yes/no)"
     ELSE IF k = "connector_moving_or_stuck" THEN "Is it moving at all, or totally stuck?"
     ELSE IF k = "connector_latch_side" THEN "Is the latch on the top, or on the side?"
     ELSE "Which step are you on: panel, clamps, or connector?"

replyFridgeFreezerWarming(yes) ==
  IF yes
  THEN "If BOTH fridge + freezer are warming up, it^s usually a cooling-system issue:\n"
       \o "- Check if the condenser fan is running\n"
       \o "- Clean condenser coils\n"
       \o "- Make sure the compressor is running (low hum/vibration)\n"
       \o "- Check for heavy frost on the freezer back panel (defrost issue)\n\n"
       \o "Do you hear the condenser fan near the bottom/back running? (yes/no)"
  ELSE "If freezer is OK but fridge is warm, it^s often an airflow issue:\n"
       \o "- Vents blocked by food\n"
       \o "- Damper stuck closed\n"
       \o "- Evaporator fan not running\n\n"
       \o "Do you feel airflow from the fridge vents, and do you hear a small fan inside the freezer? (yes/no)"

replyPumpSound(ps) ==
  IF ps = "humming"
  THEN "Humming usually means the pump is trying to run but water isn^t moving.\n"
       \o "Common causes:\n"
       \o "- blockage at filter/sump or pump inlet\n"
       \o "- stuck check valve\n"
       \o "- clogged drain hose / disposal connection\n\n"
       \o "Is there standing water, or does it drain slowly?"
  ELSE IF ps = "running" THEN troubleshootDishwasherDrainPumpFollowup(TRUE)
  ELSE IF ps = "silent" THEN troubleshootDishwasherDrainPumpFollowup(FALSE)
  ELSE "When it tries to drain, is the pump running, humming/buzzing, or totally silent?"

replyClampType(ct) ==
  IF ct = "spring"
  THEN "Spring clamp: grab the two tabs with pliers, squeeze to open, slide it back on the hose, then twist the hose gently to break the seal.\n"
       \o "If it^s stuck, a tiny flathead can help gently lift the hose edge (don^t puncture it)."
  ELSE "Screw clamp: loosen the screw a few turns (don^t remove it), slide the clamp back, then twist the hose to break the seal.\n"
       \o "If the hose won^t budge, wiggle + twist instead of pulling straight."

replyPanelStillWontDrop(yes) ==
  IF yes
  THEN "Got it ~ screws come out but panel won^t drop.\n"
       \o "Most common causes:\n"
       \o "- A hidden clip/retainer near the sides\n"
       \o "- The toe-kick overlaps the access panel (two-piece panel)\n"
       \o "- Panel needs to tilt out first, then slide down\n\n"
       \o "Try this: pull the *bottom edge* slightly toward you to unhook, then slide the panel down.\n"
       \o "Do you see any side clips you can press in? (yes/no)"
  ELSE "If screws don^t come out, check:\n"
       \o "- Are they Torx (T15/T20)?\n"
       \o "- Any screws tucked under the very bottom lip/corners?\n"
       \o "- Are you turning the right direction (counter-clockwise)?\n\n"
       \o "Are the screws Torx? (yes/no)"

replyConnectorMovingOrStuck(ms) ==
  IF ms = "moving"
  THEN "If it^s moving, keep steady pressure while holding the latch fully depressed.\n"
       \o "Tip: rock it gently side-to-side (tiny motions) while pulling straight back ~ don^t yank the wires.\n\n"
       \o "Once it^s off, do you see corrosion/dirt on the pins? (yes/no)"
  ELSE "Totally stuck usually means the latch isn^t fully released or there^s a secondary lock.\n"
       \o "Try:\n"
       \o "1) Push the connector *in* slightly first (relieves tension)\n"
       \o "2) Press/hold the latch HARD\n"
       \o "3) Pull straight out while wiggling\n"
       \o "4) If safe, use a small flathead to press the latch tab (don^t pry the plastic housing)\n\n"
       \o "Do you have enough access to press the latch firmly, or is it blocked by the frame? (blocked/accessible)"

replyLatchSeen(yes) ==
  IF yes
  THEN "Got it ~ where is the latch: top, or side?"
  ELSE "If you don^t see a latch, some connectors use a small hidden tab underneath.\n"
       \o "Try feeling for a tab and press it while pulling straight out (don^t pull the wires).\n\n"
       \o "Do you see any small tab on the underside?"

replyOrderHelp ==
  "I can help with basic order questions in this demo.\n"
  \o "If you want a human follow-up, say <human> and send your email ~ I^ll open a demo ticket.\n"
  \o "If it^s about shipping/return, include order number + ZIP."

replyCompatibilityAsk(partNumber, modelNumber) ==
  IF partNumber = NONE /\ modelNumber = NONE
  THEN "Send the part number (PS$) and your model number, and I^ll check compatibility."
  ELSE IF partNumber = NONE THEN "What^s the part number (PS$ or PartSelect link)?"
  ELSE "What^s your model number?"

\* the reply that reports every result other than true as "No"
replyCompatibilityCollapsed(ok, partNumber, modelNumber) ==
  (IF ok = "true" THEN "Yes ~ " \o partNumber \o " looks compatible with " \o modelNumber \o "."
   ELSE "No ~ " \o partNumber \o " doesn^t look compatible with " \o modelNumber \o " in this demo catalog.")
  \o "\nWant install steps, or are you troubleshooting a symptom?"

\* ok is the tool's compatible field: "true", "false" or "null" (null or absent)
replyCompatibility(ok, partNumber, modelNumber) ==
  (IF ok = "true" THEN "Yes ~ " \o partNumber \o " looks compatible with " \o modelNumber \o "."
   ELSE IF ok = "false"
   THEN "No ~ " \o partNumber \o " doesn^t look compatible with " \o modelNumber \o " in this demo catalog."
   ELSE "I can^t confirm compatibility for " \o partNumber \o " with " \o modelNumber \o " from the current demo index.")
  \o "\nWant install steps, or are you troubleshooting a symptom?"

replyInstallAskPart ==
  "What^s the full PartSelect part number (starts with PS$) or paste the PartSelect link?"

replyTroubleshootFridge(topicIce) ==
  IF topicIce
  THEN "Ice maker not working ~ quick checks:\n- Water valve open and line not kinked\n- Freezer is cold enough (around 0;F)\n- Fill tube not frozen; replace filter if overdue\n\nIf you have it, what^s the fridge model number?"
  ELSE "Fridge not cooling well ~ quick checks:\n- Vents not blocked by food\n- Clean condenser coils\n- Check whether the condenser fan is running\n\nIs the freezer also warming up?"

replyLookupAskPart ==
  "If you want to look up a part, paste the full PS part number (PS + 5%10 digits) or the PartSelect link."

replyLookupNotFound(explicitPart) ==
  "I can^t find " \o explicitPart \o " in the demo catalog. If you paste the PartSelect link, I can still help with install/troubleshooting."

replyAlternatives(modelNumber) ==
  (IF modelNumber # NONE THEN "For " \o modelNumber \o ", " ELSE "")
  \o "this demo doesn^t have a real cross-reference <alternatives> catalog.\n\n"
  \o "What I can do instead:\n"
  \o "- help you find same-category parts that list your model\n"
  \o "- tell you what specs to match (connector, mounting, hose size)\n"
  \o "- talk through OEM vs aftermarket trade-offs"

replyLookupFound(partNumber, name, modelNumber) ==
  "Found it: " \o partNumber \o " ~ " \o name \o ".\n"
  \o (IF modelNumber # NONE
      THEN "Want me to check it against your model (" \o modelNumber \o ")?"
      ELSE "If you share your model number, I can check compatibility.")

\* ------------------------------------------------------------------------
\* The data files and the lookup tools (tools.ts)
\* ------------------------------------------------------------------------
\* tools.ts has its own norm (trim, upper case); router.ts's norm is norm above
normUpper(s) == toUpperCase(trim(s))

\* The three data files are read on every call and are not part of the
\* sources; a data set is what the three files hold.  A file that is
\* missing or unreadable loads as the empty list.
NoData == [parts |-> <<>>, compatibility |-> <<>>, guides |-> <<>>]

\* the part is indexed with the model of the example question
IndexedData ==
  [parts |-> << [partNumber |-> "PS11752778", name |-> "Dishwasher Drain Pump",
                 compatibleModels |-> <<"WDT780SAEM1">>] >>,
   compatibility |-> << [partNumber |-> "PS11752778", models |-> <<"WDT780SAEM1">>] >>,
   guides |-> << [title |-> "Replace a dishwasher drain pump",
                  snippet |-> "Unplug the dishwasher, remove the lower access panel, then release the hose clamps and the wire connector.",
                  tags |-> <<"drain", "pump">>, appliance |-> "dishwasher", mode |-> "install"] >>]

\* the part is indexed, with other models only
OtherModelData ==
  [parts |-> << [partNumber |-> "PS11752778", name |-> "Dishwasher Drain Pump",
                 compatibleModels |-> << >>] >>,
   compatibility |-> << [partNumber |-> "ps11752778 ", models |-> <<"KDFE104HPS0">>] >>,
   guides |-> << [title |-> "Drain pump", snippet |-> "See guide for details.",
                  tags |-> << >>, appliance |-> "unknown", mode |-> "general"] >>]

\* no index row: the catalog entry of the part lists the model
CatalogData ==
  [parts |-> << [partNumber |-> "PS11752778", name |-> "Dishwasher Drain Pump",
                 compatibleModels |-> <<"wdt780saem1">>] >>,
   compatibility |-> << >>,
   guides |-> << [title |-> "Dishwasher not draining", snippet |-> "Check the drain hose for kinks.",
                  tags |-> << >>, appliance |-> "dishwasher", mode |-> "troubleshoot"],
                 [title |-> "Install a drain pump", snippet |-> "Steps available in guide.",
                  tags |-> << >>, appliance |-> "dishwasher", mode |-> "general"] >>]

DataSets == {NoData, IndexedData, OtherModelData, CatalogData}

loadParts(d) ==
  [i \in 1..Len(d.parts) |->
     [partNumber |-> normUpper(d.parts[i].partNumber), name |-> d.parts[i].name,
      compatibleModels |-> [j \in 1..Len(d.parts[i].compatibleModels) |->
                              normUpper(d.parts[i].compatibleModels[j])]]]

loadCompatibility(d) ==
  SelectSeq([i \in 1..Len(d.compatibility) |->
               [partNumber |-> normUpper(d.compatibility[i].partNumber),
                models |-> [j \in 1..Len(d.compatibility[i].models) |->
                              normUpper(d.compatibility[i].models[j])]]],
            LAMBDA r : r.partNumber # "")

loadGuides(d) ==
  [i \in 1..Len(d.guides) |-> [d.guides[i] EXCEPT !.title = trim(d.guides[i].title)]]

\* Array.prototype.find: the first element with the key, as a sequence of
\* at most one element
findByPartNumber(rows, pn) ==
  LET hits == { i \in 1..Len(rows) : rows[i].partNumber = pn }
  IN IF hits = {} THEN << >> ELSE << rows[Min(hits)] >>

SeqHas(s, x) == \E i \in 1..Len(s) : s[i] = x

\* part is a sequence of at most one part
toolLookupPart(d, partNumber) ==
  [part |-> findByPartNumber(loadParts(d), normUpper(partNumber)),
   sources |-> <<"Sample catalog (mock data)">>]

\* compatible is "true", "false" or "null" (the field is absent)
toolCheckCompatibility(d, partNumber, modelNumber) ==
  LET check(mn, row, part) ==
        IF row # << >>
        THEN [compatible |-> IF SeqHas(row[1].models, mn) THEN "true" ELSE "false",
              source |-> "compatibility_index",
              sources |-> <<"Compatibility index (mock data)">>]
        ELSE IF part # << >> /\ Len(part[1].compatibleModels) > 0
        THEN [compatible |-> IF SeqHas(part[1].compatibleModels, mn) THEN "true" ELSE "false",
              source |-> "catalog_fallback",
              sources |-> <<"Sample catalog (mock data)">>]
        ELSE [compatible |-> "null", source |-> "unknown",
              sources |-> <<"Compatibility index (mock data)">>]
      find(pn, mn) ==
        check(mn, findByPartNumber(loadCompatibility(d), pn), findByPartNumber(loadParts(d), pn))
  IN find(normUpper(partNumber), normUpper(modelNumber))

RECURSIVE joinWith(_, _)
joinWith(s, sep) ==
  IF Len(s) = 0 THEN "" ELSE IF Len(s) = 1 THEN s[1]
  ELSE s[1] \o sep \o joinWith(Tail(s), sep)

\* split(/\s+/).filter(Boolean): the maximal runs of non-space characters
RECURSIVE splitTerms(_, _)
splitTerms(q, i) ==
  IF i > Len(q) THEN << >>
  ELSE IF Ch(q, i) \in SpaceSet THEN splitTerms(q, i + 1)
  ELSE LET n == Min({ j \in i..Len(q) : j = Len(q) \/ Ch(q, j + 1) \in SpaceSet })
       IN << SubSeq(q, i, n) >> \o splitTerms(q, n + 1)

scoreGuide(g, q) ==
  LET score(text, terms) == Cardinality({ i \in 1..Len(terms) : includes(text, terms[i]) })
  IN score(toLowerCase(g.title \o "\n" \o g.snippet \o "\n" \o joinWith(g.tags, " ")),
           splitTerms(toLowerCase(q), 1))

modeFilter(mode, g) ==
  LET installHints == {"install", "replace", "remov", "mount", "screw", "panel",
                       "disconnect power", "reconnect"}
      troubleshootHints == {"not", "won't", "doesn't", "troubleshoot", "check", "inspect",
                            "diagnos", "symptom", "clog", "kink", "error code", "reset"}
      filter(looksInstall, looksTrouble) ==
        IF g.mode # "general" THEN g.mode = mode
        ELSE IF mode = "install" THEN looksInstall /\ ~looksTrouble
        ELSE looksTrouble
      hints(t) == filter(\E k \in installHints : includes(t, k),
                         \E k \in troubleshootHints : includes(t, k))
  IN hints(toLowerCase(g.title \o " " \o g.snippet))

guideKey(g) ==
  LET orSnippet(title) ==
        IF title # "" THEN title
        ELSE toLowerCase(SubSeq(g.snippet, 1, Min({60, Len(g.snippet)})))
  IN orSnippet(toLowerCase(trim(g.title)))

\* guides is the picked list cut to its first element, which is all the
\* router reads: the first guide of the pool with the highest score
\* (the sort is stable) whose key is not empty
toolSearchGuides(d, query, appliance, mode) ==
  LET picked(all, pool, best) ==
        [guides |-> IF pool = {} THEN << >> ELSE << all[Min(best)] >>,
         sources |-> <<"Guide store (mock data)">>]
      ranked(all, pool) ==
        picked(all, pool,
               { i \in pool :
                   \A j \in pool : scoreGuide(all[j], query) <= scoreGuide(all[i], query) })
      search(all) ==
        ranked(all, { i \in 1..Len(all) :
                        /\ appliance # "unknown" =>
                             (all[i].appliance = appliance \/ all[i].appliance = "unknown")
                        /\ modeFilter(mode, all[i])
                        /\ guideKey(all[i]) # "" })
  IN search(loadGuides(d))

\* createSupportTicketDemo: the ticket id is TCK- and a number drawn by
\* Math.random from 100000..999999; n is the number drawn
TicketDigits == {"100000", "999999"}
createSupportTicketDemo(n) ==
  [ticketId |-> "TCK-" \o n, sources |-> <<"Support handoff (demo)">>]

\* ------------------------------------------------------------------------
\* The texts of the model
\* ------------------------------------------------------------------------
\* what the user may type
Messages ==
  {"My dishwasher is not draining", "my fridge is not cooling", "yes", "humming",
   "not sure", "drains slowly", "clamps", "panel", "connector",
   "How can I install part number PS11752778?",
   "Is PS11752778 compatible with my WDT780SAEM1 model?",
   "what's the weather today", "PS117", "human name@email.com"}

\* what a client of the HTTP interface may send besides: questions that lack
\* the part number or the model number, a bare part number, order questions,
\* a refrigerator with its model number
EntityMessages ==
  {"My dishwasher is not draining", "not sure",
   "is this part compatible?",
   "Is PS11752778 compatible with my WDT780SAEM1 model?",
   "is it compatible with my fridge?",
   "how do I install it",
   "How can I install part number PS11752778?",
   "any alternatives for my dishwasher?",
   "PS11752778",
   "any alternatives to PS11752778?",
   "order #1234567 zip 94105",
   "where is my order?",
   "my fridge model is RF28R7351SG",
   "my fridge ice maker is not working"}

\* messages that carry the signals of several intents at once
IntentMessages ==
  {"I want a human to help me install PS11752778",
   "How can I install part number PS11752778?",
   "How do I install PS11752778, and is it compatible?",
   "Is PS11752778 compatible with my WDT780SAEM1 model?",
   "any compatible alternatives?",
   "any alternatives to PS11752778?",
   "PS11752778 refund",
   "PS11752778 WDT780SAEM1",
   "my order is leaking",
   "My dishwasher is not draining",
   "not sure"}

\* short answers to an open question: yes and no, acknowledgements, small
\* talk, a step word, texts no parser reads, a part number cut short
FollowUpMessages ==
  {"yes", "no", "ok", "thanks", "got it", "hello", "not sure", "what's the weather today",
   "clamps", "PS117"}

\* answers the parsers of the dishwasher drain flow read
FlowAnswers ==
  {"yes", "no", "humming", "standing water", "drains slowly", "neither", "high loop",
   "disposal"}

\* the user input of the README's example of the classifier fallback
ReadmeMessages == {"It makes a weird buzzing noise"}

\* messages that name the dishwasher, the refrigerator, both or neither
PinnedMessages ==
  {"not sure", "humming", "My dishwasher is not draining", "my fridge is not cooling",
   "my fridge is not draining"}

\* what a user who wants a person may type: the request, with or without an
\* email address or a cut part number, the address alone, other answers
HandoffMessages ==
  {"I want a human to help me install PS11752778", "human name@email.com", "name@email.com",
   "can a human help with PS117?", "not sure", "compatibility"}

\* every text a request may carry as its message, the empty one included
Texts ==
  Messages \cup EntityMessages \cup ReadmeMessages \cup IntentMessages \cup FollowUpMessages
    \cup FlowAnswers \cup PinnedMessages \cup HandoffMessages \cup {""}

Appliances == {"dishwasher", "refrigerator", "unknown"}
PumpSound == {"running", "humming", "silent", "unknown"}

\* the values the router can interpolate into a reply
PartsSeen ==
  ({ extractPartNumberFromLinkOrText(m) : m \in Texts }
     \cup { extractPartNumberFromLinkOrText(replyHome) }) \ {NONE}
ModelsSeen == { extractModelNumber(m) : m \in Texts } \cup {NONE}
ShortPartsSeen == { extractShortPartToken(m) : m \in Texts } \cup {NONE}
OrderIdsSeen == { extractOrderId(m) : m \in Texts } \cup {NONE}
ZipsSeen == { extractZip(m) : m \in Texts } \cup {NONE}
SnippetsSeen == UNION { { trim(d.guides[i].snippet) : i \in 1..Len(d.guides) } : d \in DataSets }
NamesSeen == UNION { { d.parts[i].name : i \in 1..Len(d.parts) } : d \in DataSets }

SlotKinds ==
  {"order_info", "dishwasher_drain_speed", "fridge_freezer_warming_yesno", "pump_sound",
   "drain_hose_setup", "sink_connection_type", "disposal_flow_yesno",
   "disposal_knockout_yesno", "tailpiece_gunk_yesno", "did_it_fix_yesno", "choice",
   "panel_fastener", "clamp_type", "panel_still_wont_drop_yesno",
   "connector_moving_or_stuck", "connector_latch_side", "install_step"}

\* every slot the reconstruction can return
Slots ==
  { Slot(k) : k \in SlotKinds \ {"order_info", "choice", "did_it_fix_yesno"} }
    \cup { OrderSlot(a) : a \in {"both", "order_id", "zip"} }
    \cup { ChoiceSlot, [kind |-> "did_it_fix_yesno", context |-> "drain_issue"], NoSlot }

\* every text the router can reply with when it interpolates the given values
RouterTexts(parts, models, shortParts, orderIds, zips, snippets, names, slots) ==
  UNION {
    { replyInstallStepHelp(s) : s \in {"panel", "clamps", "connector", "unknown"} },
    { replyPanelFastenerHelp(k) : k \in {"screws", "clips"} },
    { replyConnectorLatchHelp(s) : s \in {"top", "side"} },
    { replyHome, replyOutOfDomain, replyAskEmail, replyOrderHelp, replyInstallAskPart,
           replyLookupAskPart },
    { replyAskForFullPart(s) : s \in shortParts },
    { compactInstallSteps(p, m) : p \in parts, m \in models },
    { compactInstallRepeatVariant(p, m, r) : p \in parts, m \in models, r \in {1, 2} },
    { replyInstallBrief(p, m, s) : p \in parts, m \in models, s \in snippets },
    { troubleshootDishwasher(m, r) : m \in models, r \in BOOLEAN },
    { troubleshootDishwasherDrainPumpFollowup(b) : b \in BOOLEAN },
    { troubleshootDishwasherDrainSpeedFollowup(k) : k \in {"slow", "standing"} },
    { troubleshootDishwasherHoseSetupFollowup(k) :
             k \in {"high_loop", "air_gap", "sink_connection", "neither", "unknown"} },
    { troubleshootDishwasherSinkConnectionFollowup(k) : k \in {"disposal", "tailpiece", "unknown"} },
    { replyDidItFixClose(b) : b \in BOOLEAN },
    { replyDisposalFlowYesNo(b) : b \in BOOLEAN },
    { replyDisposalKnockoutYesNo(b) : b \in BOOLEAN },
    { replyTailpieceGunkYesNo(b) : b \in BOOLEAN },
    { replyOrderIntake(a) : a \in {"both", "order_id", "zip"} },
    { replyOrderStub(o, z) : o \in orderIds, z \in zips },
    { replyTicketOpened(createSupportTicketDemo(n).ticketId) : n \in TicketDigits },
    { replyAck(s) : s \in slots },
    { replyReask(s) : s \in slots \ {NoSlot} },
    { replyFridgeFreezerWarming(b) : b \in BOOLEAN },
    { replyPumpSound(ps) : ps \in PumpSound },
    { replyClampType(c) : c \in {"spring", "screw"} },
    { replyPanelStillWontDrop(b) : b \in BOOLEAN },
    { replyConnectorMovingOrStuck(k) : k \in {"moving", "stuck"} },
    { replyLatchSeen(b) : b \in BOOLEAN },
    { replyCompatibilityAsk(p, m) : p \in parts \cup {NONE}, m \in models },
    { replyCompatibility(ok, p, m) :
             ok \in {"true", "false", "null"}, p \in parts, m \in models \ {NONE} },
    { replyTroubleshootFridge(b) : b \in BOOLEAN },
    { replyLookupNotFound(p) : p \in parts },
    { replyAlternatives(m) : m \in models },
    { replyLookupFound(p, n, m) : p \in parts, n \in names, m \in models } }

AssistantTexts ==
  RouterTexts(PartsSeen, ModelsSeen, ShortPartsSeen, OrderIdsSeen, ZipsSeen, SnippetsSeen,
              NamesSeen, Slots)

\* the domain words of the domain filter, read in the lower-cased message
mentionsDomainWord(message) ==
  LET t == toLowerCase(message)
  IN \E w \in {"dishwasher", "refrigerator", "fridge", "freezer", "ice maker", "install",
               "compatible", "troubleshoot", "drain", "pump", "loop", "air gap", "sink",
               "tailpiece", "disposal", "knockout", "ps"} : includes(t, w)

\* the topic test of the refrigerator branch of the troubleshooting handler
topicIce(message) ==
  LET t == toLowerCase(message)
  IN \/ includes(t, "ice maker") \/ includes(t, "icemaster")
     \/ includes(t, "ice maker not working")

\* What the router computes from one text.  The router computes these on
\* every turn; the values are tabulated once per text, and the handler is
\* given each text with its row (memo): where the source applies a text
\* function f to the message or to a turn, the model reads message.f or
\* the turn's memo.f.
UserMemo ==
  [m \in Texts |->
     [content |-> m,
      extractPartNumberFromLinkOrText |-> extractPartNumberFromLinkOrText(m),
      extractShortPartToken |-> extractShortPartToken(m),
      extractModelNumber |-> extractModelNumber(m),
      extractEmail |-> extractEmail(m),
      extractOrderId |-> extractOrderId(m),
      extractZip |-> extractZip(m),
      inferApplianceFromText |-> inferApplianceFromText(m),
      inferIntent |-> inferIntent(m),
      isClearIntentShift |-> isClearIntentShift(m),
      hasGlobalIntentKeyword |-> hasGlobalIntentKeyword(m),
      looksLikeAck |-> looksLikeAck(m),
      looksLikeSmallTalk |-> looksLikeSmallTalk(m),
      looksLikeUrl |-> looksLikeUrl(m),
      wantsHuman |-> wantsHuman(m),
      wantsAlternatives |-> wantsAlternatives(m),
      wantsReturnRefundShipping |-> wantsReturnRefundShipping(m),
      isInstallQuickReply |-> isInstallQuickReply(m),
      parseYesNo |-> parseYesNo(m),
      parseChoice |-> parseChoice(m),
      parseClampType |-> parseClampType(m),
      parseDrainSpeed |-> parseDrainSpeed(m),
      parsePumpSound |-> parsePumpSound(m),
      parsePanelFastener |-> parsePanelFastener(m),
      parseLatchSide |-> parseLatchSide(m),
      parseMovingOrStuck |-> parseMovingOrStuck(m),
      parseDrainHoseSetup |-> parseDrainHoseSetup(m),
      parseSinkConnectionType |-> parseSinkConnectionType(m),
      installStepOfMessage |-> installStepOfMessage(m),
      mentionsDomainWord |-> mentionsDomainWord(m),
      topicIce |-> topicIce(m),
      norm |-> norm(m),
      toLowerCase |-> toLowerCase(m)]]

AssistantMemo ==
  [a \in AssistantTexts |->
     [content |-> a,
      extractPartNumberFromLinkOrText |-> extractPartNumberFromLinkOrText(a),
      inferDialogState |-> dialogStateOfText(toLowerCase(a)),
      handoffPending |-> handoffPendingText(a),
      installStepAsked |-> installStepAsked(a)]]

\* ------------------------------------------------------------------------
\* Reading the history (a sequence of [role, content])
\* ------------------------------------------------------------------------
User(m) == [role |-> "user", content |-> m]
Assistant(a) == [role |-> "assistant", content |-> a]
NoTurn == [role |-> "none", content |-> NONE]

\* the message and the history as the handler reads them: each text with
\* its row of the tables U (user texts) and A (assistant texts)
WithMemo(U, m) == U[m]
HistoryWithMemo(U, A, h) ==
  [i \in 1..Len(h) |->
     [role |-> h[i].role, content |-> h[i].content,
      memo |-> IF h[i].role = "user" THEN U[h[i].content] ELSE A[h[i].content]]]

\* all the user turns, however many
lastNUserUnbounded(history, n) == SelectSeq(history, LAMBDA m : m.role = "user")

lastNUser(history, n) ==
  LET u == SelectSeq(history, LAMBDA m : m.role = "user")
  IN SubSeq(u, Max({1, Len(u) - n + 1}), Len(u))

\* the reading that takes the last turn only, and only when it is the
\* assistant's
lastAssistantLastTurn(history) ==
  IF Len(history) > 0 /\ history[Len(history)].role = "assistant"
  THEN history[Len(history)] ELSE NoTurn

\* the last assistant turn, NoTurn if there is none
lastAssistant(history) ==
  LET idx == { i \in 1..Len(history) : history[i].role = "assistant" }
  IN IF idx = {} THEN NoTurn ELSE history[Max(idx)]

\* the count that takes the last turn too
countUserRepeats(history, current) ==
  Cardinality({ i \in 1..Len(history) :
                  history[i].role = "user" /\ history[i].memo.norm = current.norm })

countUserRepeatsExcludingCurrent(history, current) ==
  LET cur == current.norm
      end == IF /\ Len(history) > 0
                /\ history[Len(history)].role = "user"
                /\ history[Len(history)].memo.norm = cur
             THEN Len(history) - 1 ELSE Len(history)
  IN Cardinality({ i \in 1..end :
                     history[i].role = "user" /\ history[i].memo.norm = cur })

\* the test that lets every turn pass
messageMentionsAnyAppliance(m, appliance) == TRUE

messageMentionsAppliance(m, appliance) ==
  appliance = "unknown" \/ m.memo.inferApplianceFromText = appliance

findLastPartNumber(history) ==
  LET hits == { i \in 1..Len(history) : history[i].memo.extractPartNumberFromLinkOrText # NONE }
  IN IF hits = {} THEN NONE ELSE history[Max(hits)].memo.extractPartNumberFromLinkOrText

findLastModelNumberForAppliance(history, appliance) ==
  LET hits == { i \in 1..Len(history) :
                  /\ history[i].role = "user"
                  /\ messageMentionsAppliance(history[i], appliance)
                  /\ history[i].memo.extractModelNumber # NONE }
  IN IF hits = {} THEN NONE ELSE history[Max(hits)].memo.extractModelNumber

\* the appliance of the current message alone
inferPinnedApplianceMessageOnly(message, history) ==
  message.inferApplianceFromText

inferPinnedAppliance(message, history) ==
  LET now == message.inferApplianceFromText
      recent == lastNUser(history, 8)
      dw == Cardinality({ i \in 1..Len(recent) :
                            recent[i].memo.inferApplianceFromText = "dishwasher" })
      rf == Cardinality({ i \in 1..Len(recent) :
                            recent[i].memo.inferApplianceFromText = "refrigerator" })
  IN IF now # "unknown" THEN now
     ELSE IF dw = rf THEN "unknown"
     ELSE IF dw > rf THEN "dishwasher" ELSE "refrigerator"

\* the entities with the history's part number kept beside a short token
resolveEntitiesHistoryPart(message, history, appliance) ==
  LET shortPart == message.extractShortPartToken
      part == message.extractPartNumberFromLinkOrText
      model == message.extractModelNumber
  IN [partNumber |-> IF part # NONE THEN part ELSE findLastPartNumber(history),
      modelNumber |-> IF model # NONE THEN model
                      ELSE findLastModelNumberForAppliance(history, appliance),
      hasIncompletePart |-> shortPart # NONE /\ part = NONE,
      shortPart |-> shortPart]

resolveEntities(message, history, appliance) ==
  LET shortPart == message.extractShortPartToken
      part == message.extractPartNumberFromLinkOrText
      model == message.extractModelNumber
      hasIncompletePart == shortPart # NONE /\ part = NONE
  IN [partNumber |-> IF part # NONE THEN part
                     ELSE IF hasIncompletePart THEN NONE ELSE findLastPartNumber(history),
      modelNumber |-> IF model # NONE THEN model
                      ELSE findLastModelNumberForAppliance(history, appliance),
      hasIncompletePart |-> hasIncompletePart,
      shortPart |-> shortPart]

inferDialogState(history) ==
  IF lastAssistant(history) = NoTurn THEN NoSlot
  ELSE lastAssistant(history).memo.inferDialogState

\* the test that takes every conversation for one that asked for a person
everRequestedHumanAssumed(history) == TRUE

everRequestedHuman(history) ==
  LET u == lastNUser(history, 10)
  IN \E i \in 1..Len(u) : u[i].memo.wantsHuman

handoffPending(history) ==
  lastAssistant(history) # NoTurn /\ lastAssistant(history).memo.handoffPending

\* detectInstallStepFollowup with the clamp and connector words left out
detectInstallStepFollowupPanelOnly(history, userMessage) ==
  IF userMessage.installStepOfMessage = "shift" THEN "null"
  ELSE IF ~(lastAssistant(history) # NoTurn /\ lastAssistant(history).memo.installStepAsked)
  THEN "null"
  ELSE IF userMessage.installStepOfMessage = "panel" THEN "panel"
  ELSE "null"

\* "null" when the message is not a step answer
detectInstallStepFollowup(history, userMessage) ==
  IF userMessage.installStepOfMessage = "shift" THEN "null"
  ELSE IF ~(lastAssistant(history) # NoTurn /\ lastAssistant(history).memo.installStepAsked)
  THEN "null"
  ELSE userMessage.installStepOfMessage

shouldClearAwaiting(awaiting, currentIntent, currentAppliance, message) ==
  IF awaiting = NoSlot THEN FALSE
  ELSE IF message.hasGlobalIntentKeyword THEN TRUE
  ELSE IF \/ message.extractPartNumberFromLinkOrText # NONE
          \/ message.extractModelNumber # NONE
          \/ message.extractOrderId # NONE
          \/ message.extractZip # NONE
  THEN TRUE
  ELSE IF /\ currentIntent = "troubleshooting"
          /\ awaiting.kind \in {"install_step", "clamp_type", "panel_fastener", "connector_latch_side"}
  THEN TRUE
  ELSE currentAppliance = "refrigerator" /\ isAwaitingTroubleshoot(awaiting)

\* ------------------------------------------------------------------------
\* handleChatTurn
\* ------------------------------------------------------------------------
Resp(reply, meta, cards) == [reply |-> reply, meta |-> meta, cards |-> cards]

\* the turn is suspended at "await groqParsePumpSound(message)"
AwaitsClassifier == [awaits |-> "groqParsePumpSound"]

\* stickiness for the installation family only
stickyIntentInstallOnly(awaiting, intent0, message) ==
  LET u == message
      i1 == IF /\ awaiting # NoSlot /\ isAwaitingInstall(awaiting) /\ ~u.isClearIntentShift
               /\ (u.isInstallQuickReply \/ intent0 = "unknown" \/ u.looksLikeAck)
            THEN "installation_help" ELSE intent0
  IN IF /\ i1 = "unknown" /\ u.extractPartNumberFromLinkOrText # NONE
        /\ u.extractModelNumber # NONE
     THEN "compatibility_check" ELSE i1

\* intent stickiness: the three blocks that follow shouldClearAwaiting
stickyIntent(awaiting, intent0, message) ==
  LET u == message
      i1 == IF /\ awaiting # NoSlot /\ isAwaitingInstall(awaiting) /\ ~u.isClearIntentShift
               /\ (u.isInstallQuickReply \/ intent0 = "unknown" \/ u.looksLikeAck)
            THEN "installation_help" ELSE intent0
      i2 == IF /\ awaiting # NoSlot /\ isAwaitingTroubleshoot(awaiting) /\ ~u.isClearIntentShift
               /\ (i1 = "unknown" \/ u.looksLikeAck \/ u.parseYesNo # "null")
            THEN "troubleshooting" ELSE i1
      i3 == IF /\ awaiting # NoSlot /\ isAwaitingOrder(awaiting) /\ ~u.isClearIntentShift
               /\ (i2 = "unknown" \/ u.looksLikeAck)
            THEN "order_support" ELSE i2
  IN IF /\ i3 = "unknown" /\ u.extractPartNumberFromLinkOrText # NONE
        /\ u.extractModelNumber # NONE
     THEN "compatibility_check" ELSE i3

\* the domain filter that does not look at the open slot
allowedTurnWithoutSlot(awaiting, message, partNumber, modelNumber) ==
  LET u == message
  IN \/ u.looksLikeSmallTalk
     \/ u.looksLikeAck
     \/ u.wantsHuman
     \/ u.wantsReturnRefundShipping
     \/ u.looksLikeUrl
     \/ u.parseYesNo # "null"
     \/ u.isInstallQuickReply
     \/ u.norm \in {"humming", "buzzing", "silent", "stuck", "moving"}
     \/ u.mentionsDomainWord
     \/ partNumber # NONE
     \/ modelNumber # NONE
     \/ u.extractOrderId # NONE
     \/ u.extractZip # NONE

\* the domain filter
allowedTurn(awaiting, message, partNumber, modelNumber) ==
  LET u == message
  IN \/ awaiting # NoSlot
     \/ u.looksLikeSmallTalk
     \/ u.looksLikeAck
     \/ u.wantsHuman
     \/ u.wantsReturnRefundShipping
     \/ u.looksLikeUrl
     \/ u.parseYesNo # "null"
     \/ u.isInstallQuickReply
     \/ u.norm \in {"humming", "buzzing", "silent", "stuck", "moving"}
     \/ u.mentionsDomainWord
     \/ partNumber # NONE
     \/ modelNumber # NONE
     \/ u.extractOrderId # NONE
     \/ u.extractZip # NONE

\* the intent of the reply to a pure acknowledgement
ackIntent(awaiting) ==
  IF awaiting.kind = "order_info" THEN "order_support"
  ELSE IF awaiting.kind \in {"pump_sound", "dishwasher_drain_speed", "drain_hose_setup",
                             "sink_connection_type", "disposal_flow_yesno",
                             "disposal_knockout_yesno", "tailpiece_gunk_yesno", "did_it_fix_yesno"}
  THEN "troubleshooting"
  ELSE IF awaiting.kind \in {"install_step", "clamp_type", "panel_fastener", "connector_latch_side",
                             "panel_still_wont_drop_yesno", "connector_moving_or_stuck"}
  THEN "installation_help"
  ELSE "unknown"

\* the handler that credits the classifier whenever it was called
pumpSoundHandlerAlwaysCredits(message, metaBase, llm) ==
  LET answer(ps, usedGroq) ==
        << Resp(replyPumpSound(ps),
                [metaBase EXCEPT !.intent = "troubleshooting",
                                 !.toolsUsed = IF usedGroq
                                               THEN Append(metaBase.toolsUsed, "groqParsePumpSound")
                                               ELSE metaBase.toolsUsed],
                << >>) >>
      classified(usedGroq) ==
        answer(IF usedGroq THEN llm ELSE message.parsePumpSound, usedGroq)
  IN IF message.isClearIntentShift THEN << >>
     ELSE IF message.parsePumpSound = "unknown" /\ llm = "pending" THEN << AwaitsClassifier >>
     ELSE classified(message.parsePumpSound = "unknown")

\* the handler that calls the classifier again when it could not tell
pumpSoundHandlerRetries(message, metaBase, llm) ==
  LET answer(ps, usedGroq) ==
        << Resp(replyPumpSound(ps),
                [metaBase EXCEPT !.intent = "troubleshooting",
                                 !.toolsUsed = IF usedGroq
                                               THEN Append(metaBase.toolsUsed, "groqParsePumpSound")
                                               ELSE metaBase.toolsUsed],
                << >>) >>
      classified(usedGroq) ==
        answer(IF usedGroq THEN llm ELSE message.parsePumpSound, usedGroq)
  IN IF message.isClearIntentShift THEN << >>
     ELSE IF message.parsePumpSound = "unknown" /\ llm \in {"pending", "unknown"}
     THEN << AwaitsClassifier >>
     ELSE classified(message.parsePumpSound = "unknown")

\* the handler that leaves the slot when the classifier could not tell, so
\* that the classifier's answer decides which handler replies
pumpSoundHandlerFallsThrough(message, metaBase, llm) ==
  LET answer(ps, usedGroq) ==
        << Resp(replyPumpSound(ps),
                [metaBase EXCEPT !.intent = "troubleshooting",
                                 !.toolsUsed = IF usedGroq
                                               THEN Append(metaBase.toolsUsed, "groqParsePumpSound")
                                               ELSE metaBase.toolsUsed],
                << >>) >>
      classified(usedGroq) ==
        answer(IF usedGroq THEN llm ELSE message.parsePumpSound, usedGroq)
  IN IF message.isClearIntentShift THEN << >>
     ELSE IF message.parsePumpSound = "unknown" /\ llm = "pending" THEN << AwaitsClassifier >>
     ELSE IF message.parsePumpSound = "unknown" /\ llm = "unknown" THEN << >>
     ELSE classified(message.parsePumpSound = "unknown" /\ llm # "unknown")

\* The handler of the pump_sound slot.  llm is what groqParsePumpSound
\* returned, "pending" before it is called: the handler is then suspended at
\* the call if it makes it.
pumpSoundHandler(message, metaBase, llm) ==
  LET answer(ps, usedGroq) ==
        << Resp(replyPumpSound(ps),
                [metaBase EXCEPT !.intent = "troubleshooting",
                                 !.toolsUsed = IF usedGroq
                                               THEN Append(metaBase.toolsUsed, "groqParsePumpSound")
                                               ELSE metaBase.toolsUsed],
                << >>) >>
      classified(usedGroq) ==
        answer(IF usedGroq THEN llm ELSE message.parsePumpSound, usedGroq)
  IN IF message.isClearIntentShift THEN << >>
     ELSE IF message.parsePumpSound = "unknown" /\ llm = "pending" THEN << AwaitsClassifier >>
     ELSE classified(message.parsePumpSound = "unknown" /\ llm # "unknown")

\* Follow-up pre-routing: the handler of the open slot.  The result is a
\* sequence: empty when the handler falls through to the intent dispatch,
\* else the one response (or the suspension at the classifier call).
\* llm is what groqParsePumpSound returned, "pending" before it is called.
slotHandler(awaiting, message, history, metaBase, llm) ==
  LET u == message
      k == awaiting.kind
      shift == u.isClearIntentShift
      yn2 == u.parseYesNo
      meta(i) == [metaBase EXCEPT !.intent = i]
      orderR(r) == << Resp(r, meta("order_support"), << >>) >>
      troubleR(r) == << Resp(r, meta("troubleshooting"), << >>) >>
      installR(r) == << Resp(r, meta("installation_help"), << >>) >>
      yesNoHandler(answer(_), wrap(_)) ==
        IF shift THEN << >>
        ELSE IF yn2 = "null" THEN wrap(replyReask(awaiting))
        ELSE wrap(answer(yn2 = "true"))
  IN IF k = "order_info"
     THEN LET oid == u.extractOrderId
              zip == u.extractZip
          IN IF awaiting.ask = "order_id" /\ oid = NONE /\ ~shift THEN orderR(replyOrderIntake("order_id"))
             ELSE IF awaiting.ask = "zip" /\ zip = NONE /\ ~shift THEN orderR(replyOrderIntake("zip"))
             ELSE IF awaiting.ask = "both" /\ (oid = NONE \/ zip = NONE) /\ ~shift
             THEN orderR(replyOrderIntake("both"))
             ELSE orderR(replyOrderStub(oid, zip))
     ELSE IF k = "dishwasher_drain_speed"
     THEN IF u.parseDrainSpeed # "null"
          THEN troubleR(troubleshootDishwasherDrainSpeedFollowup(u.parseDrainSpeed))
          ELSE IF ~shift THEN troubleR(replyReask(awaiting))
          ELSE << >>
     ELSE IF k = "fridge_freezer_warming_yesno"
     THEN yesNoHandler(replyFridgeFreezerWarming, troubleR)
     ELSE IF k = "pump_sound"
     THEN pumpSoundHandler(message, metaBase, llm)
     ELSE IF k = "drain_hose_setup"
     THEN IF shift THEN << >>
          ELSE troubleR(troubleshootDishwasherHoseSetupFollowup(u.parseDrainHoseSetup))
     ELSE IF k = "sink_connection_type"
     THEN IF shift THEN << >>
          ELSE troubleR(troubleshootDishwasherSinkConnectionFollowup(u.parseSinkConnectionType))
     ELSE IF k = "disposal_flow_yesno" THEN yesNoHandler(replyDisposalFlowYesNo, troubleR)
     ELSE IF k = "disposal_knockout_yesno" THEN yesNoHandler(replyDisposalKnockoutYesNo, troubleR)
     ELSE IF k = "tailpiece_gunk_yesno" THEN yesNoHandler(replyTailpieceGunkYesNo, troubleR)
     ELSE IF k = "did_it_fix_yesno" THEN yesNoHandler(replyDidItFixClose, troubleR)
     ELSE IF k = "choice"
     THEN IF u.parseChoice = "null"
          THEN << Resp(replyReask(awaiting), meta("unknown"), << >>) >>
          ELSE << >>
     ELSE IF k = "panel_fastener"
     THEN IF shift THEN << >>
          ELSE IF u.parsePanelFastener = "null" THEN installR(replyReask(awaiting))
          ELSE installR(replyPanelFastenerHelp(u.parsePanelFastener))
     ELSE IF k = "clamp_type"
     THEN IF shift THEN << >>
          ELSE IF u.parseClampType = "null" THEN installR(replyReask(awaiting))
          ELSE installR(replyClampType(u.parseClampType))
     ELSE IF k = "panel_still_wont_drop_yesno" THEN yesNoHandler(replyPanelStillWontDrop, installR)
     ELSE IF k = "connector_moving_or_stuck"
     THEN IF shift THEN << >>
          ELSE IF u.parseMovingOrStuck = "unknown" THEN installR(replyReask(awaiting))
          ELSE installR(replyConnectorMovingOrStuck(u.parseMovingOrStuck))
     ELSE IF k = "connector_latch_side"
     THEN IF shift THEN << >>
          ELSE IF u.parseLatchSide # "null" THEN installR(replyConnectorLatchHelp(u.parseLatchSide))
          ELSE IF yn2 # "null" THEN installR(replyLatchSeen(yn2 = "true"))
          ELSE installR(replyReask(awaiting))
     ELSE IF k = "install_step"
     THEN IF shift THEN << >>
          ELSE LET step == detectInstallStepFollowup(history, message)
               IN IF step # "null" THEN installR(replyInstallStepHelp(step))
                  ELSE installR(replyReask(awaiting))
     ELSE << >>

\* the intent the dispatch routes on: a parsed answer to the choice question
\* replaces intent0 after metaBase was built
routedIntent(awaiting, intent0, message) ==
  LET choice == message.parseChoice
  IN IF awaiting.kind = "choice" /\ choice # "null"
     THEN (IF choice = "compatibility" THEN "compatibility_check"
           ELSE IF choice = "install" THEN "installation_help" ELSE "troubleshooting")
     ELSE intent0

partCard(p) ==
  [type |-> "part", partNumber |-> p.partNumber, name |-> p.name,
   compatibleModels |-> p.compatibleModels]

\* the dispatch that checks compatibility as soon as one of the two numbers
\* is known
dispatchIntentPartialInput(intent0, message, d, metaBase, appliance, partNumber, modelNumber, repeats) ==
  LET u == message
      meta(i) == [metaBase EXCEPT !.intent = i]
      tooled(i, tool, r) == [metaBase EXCEPT !.intent = i, !.toolsUsed = << tool >>,
                                             !.sources = r.sources]
      compatibility(r) ==
        Resp(replyCompatibility(r.compatible, partNumber, modelNumber),
             tooled("compatibility_check", "toolCheckCompatibility", r), << >>)
      looksUseless(snippet) ==
        \/ snippet = ""
        \/ toLowerCase(snippet) = "see guide for details."
        \/ toLowerCase(snippet) = "steps available in guide."
        \/ Len(snippet) < 12
      installBrief(gs, snippet) ==
        Resp(IF looksUseless(snippet)
             THEN (IF repeats >= 1
                   THEN compactInstallRepeatVariant(partNumber, modelNumber, repeats)
                   ELSE compactInstallSteps(partNumber, modelNumber))
             ELSE replyInstallBrief(partNumber, modelNumber, snippet),
             tooled("installation_help", "toolSearchGuides", gs), << >>)
      installation(gs) ==
        installBrief(gs, IF gs.guides = << >> THEN "" ELSE trim(gs.guides[1].snippet))
      lookup(explicitPart, r) ==
        IF r.part = << >>
        THEN Resp(replyLookupNotFound(explicitPart),
                  tooled("part_lookup", "toolLookupPart", r), << >>)
        ELSE IF u.wantsAlternatives
        THEN Resp(replyAlternatives(modelNumber),
                  tooled("part_lookup", "toolLookupPart", r), << partCard(r.part[1]) >>)
        ELSE Resp(replyLookupFound(r.part[1].partNumber, r.part[1].name, modelNumber),
                  tooled("part_lookup", "toolLookupPart", r), << partCard(r.part[1]) >>)
  IN IF intent0 = "order_support"
     THEN LET orderId == u.extractOrderId
              zip == u.extractZip
          IN IF orderId = NONE /\ zip = NONE /\ u.wantsReturnRefundShipping
             THEN Resp(replyOrderIntake("both"), meta("order_support"), << >>)
             ELSE IF orderId # NONE \/ zip # NONE
             THEN Resp(replyOrderStub(orderId, zip), meta("order_support"), << >>)
             ELSE Resp(replyOrderHelp, metaBase, << >>)
     ELSE IF intent0 = "compatibility_check"
     THEN IF partNumber = NONE /\ modelNumber = NONE
          THEN Resp(replyCompatibilityAsk(partNumber, modelNumber), meta("compatibility_check"), << >>)
          ELSE compatibility(toolCheckCompatibility(d, partNumber, modelNumber))
     ELSE IF intent0 = "installation_help"
     THEN IF partNumber = NONE THEN Resp(replyInstallAskPart, metaBase, << >>)
          ELSE installation(toolSearchGuides(d, message.content, appliance, "install"))
     ELSE IF intent0 = "troubleshooting"
     THEN IF appliance = "dishwasher"
          THEN Resp(troubleshootDishwasher(modelNumber, repeats >= 1), meta("troubleshooting"), << >>)
          ELSE Resp(replyTroubleshootFridge(u.topicIce), meta("troubleshooting"), << >>)
     ELSE IF intent0 = "part_lookup"
     THEN IF u.extractPartNumberFromLinkOrText = NONE THEN Resp(replyLookupAskPart, metaBase, << >>)
          ELSE lookup(u.extractPartNumberFromLinkOrText,
                      toolLookupPart(d, u.extractPartNumberFromLinkOrText))
     ELSE Resp(replyHome, metaBase, << >>)

\* the dispatch that shows the card of the part with a compatibility answer
dispatchIntentCardOnCompatibility(intent0, message, d, metaBase, appliance, partNumber, modelNumber, repeats) ==
  LET u == message
      meta(i) == [metaBase EXCEPT !.intent = i]
      tooled(i, tool, r) == [metaBase EXCEPT !.intent = i, !.toolsUsed = << tool >>,
                                             !.sources = r.sources]
      cardsOf(part) == IF part = << >> THEN << >> ELSE << partCard(part[1]) >>
      compatibility(r) ==
        Resp(replyCompatibility(r.compatible, partNumber, modelNumber),
             tooled("compatibility_check", "toolCheckCompatibility", r),
             cardsOf(toolLookupPart(d, partNumber).part))
      looksUseless(snippet) ==
        \/ snippet = ""
        \/ toLowerCase(snippet) = "see guide for details."
        \/ toLowerCase(snippet) = "steps available in guide."
        \/ Len(snippet) < 12
      installBrief(gs, snippet) ==
        Resp(IF looksUseless(snippet)
             THEN (IF repeats >= 1
                   THEN compactInstallRepeatVariant(partNumber, modelNumber, repeats)
                   ELSE compactInstallSteps(partNumber, modelNumber))
             ELSE replyInstallBrief(partNumber, modelNumber, snippet),
             tooled("installation_help", "toolSearchGuides", gs), << >>)
      installation(gs) ==
        installBrief(gs, IF gs.guides = << >> THEN "" ELSE trim(gs.guides[1].snippet))
      lookup(explicitPart, r) ==
        IF r.part = << >>
        THEN Resp(replyLookupNotFound(explicitPart),
                  tooled("part_lookup", "toolLookupPart", r), << >>)
        ELSE IF u.wantsAlternatives
        THEN Resp(replyAlternatives(modelNumber),
                  tooled("part_lookup", "toolLookupPart", r), << partCard(r.part[1]) >>)
        ELSE Resp(replyLookupFound(r.part[1].partNumber, r.part[1].name, modelNumber),
                  tooled("part_lookup", "toolLookupPart", r), << partCard(r.part[1]) >>)
  IN IF intent0 = "order_support"
     THEN LET orderId == u.extractOrderId
              zip == u.extractZip
          IN IF orderId = NONE /\ zip = NONE /\ u.wantsReturnRefundShipping
             THEN Resp(replyOrderIntake("both"), meta("order_support"), << >>)
             ELSE IF orderId # NONE \/ zip # NONE
             THEN Resp(replyOrderStub(orderId, zip), meta("order_support"), << >>)
             ELSE Resp(replyOrderHelp, metaBase, << >>)
     ELSE IF intent0 = "compatibility_check"
     THEN IF partNumber = NONE \/ modelNumber = NONE
          THEN Resp(replyCompatibilityAsk(partNumber, modelNumber), meta("compatibility_check"), << >>)
          ELSE compatibility(toolCheckCompatibility(d, partNumber, modelNumber))
     ELSE IF intent0 = "installation_help"
     THEN IF partNumber = NONE THEN Resp(replyInstallAskPart, metaBase, << >>)
          ELSE installation(toolSearchGuides(d, message.content, appliance, "install"))
     ELSE IF intent0 = "troubleshooting"
     THEN IF appliance = "dishwasher"
          THEN Resp(troubleshootDishwasher(modelNumber, repeats >= 1), meta("troubleshooting"), << >>)
          ELSE Resp(replyTroubleshootFridge(u.topicIce), meta("troubleshooting"), << >>)
     ELSE IF intent0 = "part_lookup"
     THEN IF u.extractPartNumberFromLinkOrText = NONE THEN Resp(replyLookupAskPart, metaBase, << >>)
          ELSE lookup(u.extractPartNumberFromLinkOrText,
                      toolLookupPart(d, u.extractPartNumberFromLinkOrText))
     ELSE Resp(replyHome, metaBase, << >>)

\* the intent dispatch, from "Order support" to the final fallback
dispatchIntent(intent0, message, d, metaBase, appliance, partNumber, modelNumber, repeats) ==
  LET u == message
      meta(i) == [metaBase EXCEPT !.intent = i]
      tooled(i, tool, r) == [metaBase EXCEPT !.intent = i, !.toolsUsed = << tool >>,
                                             !.sources = r.sources]
      compatibility(r) ==
        Resp(replyCompatibility(r.compatible, partNumber, modelNumber),
             tooled("compatibility_check", "toolCheckCompatibility", r), << >>)
      looksUseless(snippet) ==
        \/ snippet = ""
        \/ toLowerCase(snippet) = "see guide for details."
        \/ toLowerCase(snippet) = "steps available in guide."
        \/ Len(snippet) < 12
      installBrief(gs, snippet) ==
        Resp(IF looksUseless(snippet)
             THEN (IF repeats >= 1
                   THEN compactInstallRepeatVariant(partNumber, modelNumber, repeats)
                   ELSE compactInstallSteps(partNumber, modelNumber))
             ELSE replyInstallBrief(partNumber, modelNumber, snippet),
             tooled("installation_help", "toolSearchGuides", gs), << >>)
      installation(gs) ==
        installBrief(gs, IF gs.guides = << >> THEN "" ELSE trim(gs.guides[1].snippet))
      lookup(explicitPart, r) ==
        IF r.part = << >>
        THEN Resp(replyLookupNotFound(explicitPart),
                  tooled("part_lookup", "toolLookupPart", r), << >>)
        ELSE IF u.wantsAlternatives
        THEN Resp(replyAlternatives(modelNumber),
                  tooled("part_lookup", "toolLookupPart", r), << partCard(r.part[1]) >>)
        ELSE Resp(replyLookupFound(r.part[1].partNumber, r.part[1].name, modelNumber),
                  tooled("part_lookup", "toolLookupPart", r), << partCard(r.part[1]) >>)
  IN IF intent0 = "order_support"
     THEN LET orderId == u.extractOrderId
              zip == u.extractZip
          IN IF orderId = NONE /\ zip = NONE /\ u.wantsReturnRefundShipping
             THEN Resp(replyOrderIntake("both"), meta("order_support"), << >>)
             ELSE IF orderId # NONE \/ zip # NONE
             THEN Resp(replyOrderStub(orderId, zip), meta("order_support"), << >>)
             ELSE Resp(replyOrderHelp, metaBase, << >>)
     ELSE IF intent0 = "compatibility_check"
     THEN IF partNumber = NONE \/ modelNumber = NONE
          THEN Resp(replyCompatibilityAsk(partNumber, modelNumber), meta("compatibility_check"), << >>)
          ELSE compatibility(toolCheckCompatibility(d, partNumber, modelNumber))
     ELSE IF intent0 = "installation_help"
     THEN IF partNumber = NONE THEN Resp(replyInstallAskPart, metaBase, << >>)
          ELSE installation(toolSearchGuides(d, message.content, appliance, "install"))
     ELSE IF intent0 = "troubleshooting"
     THEN IF appliance = "dishwasher"
          THEN Resp(troubleshootDishwasher(modelNumber, repeats >= 1), meta("troubleshooting"), << >>)
          ELSE Resp(replyTroubleshootFridge(u.topicIce), meta("troubleshooting"), << >>)
     ELSE IF intent0 = "part_lookup"
     THEN IF u.extractPartNumberFromLinkOrText = NONE THEN Resp(replyLookupAskPart, metaBase, << >>)
          ELSE lookup(u.extractPartNumberFromLinkOrText,
                      toolLookupPart(d, u.extractPartNumberFromLinkOrText))
     ELSE Resp(replyHome, metaBase, << >>)

\* the slot of the turn: the reconstructed slot unless shouldClearAwaiting
\* clears it
activeAwaiting(message, history, appliance) ==
  LET kept(inferred) ==
        IF shouldClearAwaiting(inferred, message.inferIntent, appliance, message)
        THEN NoSlot ELSE inferred
  IN kept(inferDialogState(history))

\* One turn.  message and history carry their memo rows (WithMemo,
\* HistoryWithMemo), d is what the data files hold, ticketNo the number Math.random
\* yields if a ticket is opened, llm what groqParsePumpSound returned
\* ("pending": not yet called; the result is then AwaitsClassifier if the
\* turn calls it).
handleChatTurn(message, history, d, ticketNo, llm) ==
  LET u == message
      ticket(metaBase, r) ==
        Resp(replyTicketOpened(r.ticketId),
             [metaBase EXCEPT !.intent = "order_support",
                              !.toolsUsed = << "toolCreateSupportTicketDemo" >>,
                              !.sources = r.sources],
             << >>)
      route(awaiting, intent0, metaBase, e, appliance, pending, handled) ==
        IF ~allowedTurn(awaiting, message, e.partNumber, e.modelNumber)
        THEN Resp(replyOutOfDomain,
                  [metaBase EXCEPT !.inDomain = FALSE, !.intent = "unknown"], << >>)
        ELSE IF e.hasIncompletePart THEN Resp(replyAskForFullPart(e.shortPart), metaBase, << >>)
        ELSE IF u.extractEmail # NONE /\ (everRequestedHuman(history) \/ pending \/ u.wantsHuman)
        THEN ticket(metaBase, createSupportTicketDemo(ticketNo))
        ELSE IF u.wantsHuman \/ pending
        THEN Resp(replyAskEmail, [metaBase EXCEPT !.intent = "order_support"], << >>)
        ELSE IF u.looksLikeAck
        THEN Resp(replyAck(awaiting), [metaBase EXCEPT !.intent = ackIntent(awaiting)], << >>)
        ELSE IF u.looksLikeSmallTalk /\ awaiting = NoSlot
        THEN Resp(replyHome, [metaBase EXCEPT !.intent = "unknown"], << >>)
        ELSE IF handled # << >> THEN handled[1]
        ELSE dispatchIntent(routedIntent(awaiting, intent0, message), message, d, metaBase,
                            appliance, e.partNumber, e.modelNumber,
                            countUserRepeatsExcludingCurrent(history, message))
      withMeta(awaiting, intent0, metaBase, e, appliance) ==
        route(awaiting, intent0, metaBase, e, appliance,
              handoffPending(history) /\ ~u.isClearIntentShift /\ u.extractEmail = NONE,
              slotHandler(awaiting, message, history, metaBase, llm))
      withIntent(awaiting, intent0, e, appliance) ==
        withMeta(awaiting, intent0,
                 [inDomain |-> TRUE, intent |-> intent0,
                  extracted |-> [partNumber |-> e.partNumber, modelNumber |-> e.modelNumber,
                                 appliance |-> appliance],
                  toolsUsed |-> << >>, sources |-> << >>],
                 e, appliance)
      withAwaiting(awaiting, e, appliance) ==
        withIntent(awaiting, stickyIntent(awaiting, u.inferIntent, message), e, appliance)
      withAppliance(appliance) ==
        withAwaiting(activeAwaiting(message, history, appliance),
                     resolveEntities(message, history, appliance), appliance)
  IN withAppliance(inferPinnedAppliance(message, history))

\* Where the turn leaves handleChatTurn: at the domain filter ("domain"), at
\* the incomplete part number ("incomplete"), at the human handoff ("ticket",
\* "email"), at the acknowledgement ("ack"), at small talk ("smalltalk"), in
\* the handler of the open slot ("slot") or in the intent dispatch
\* ("dispatch"); with the slot that is left after clearing, the intent the
\* dispatch routes on and the entities resolved.
exitTaken(message, history) ==
  LET u == message
      exitOf(awaiting, e, pending, handled) ==
        IF ~allowedTurn(awaiting, message, e.partNumber, e.modelNumber) THEN "domain"
        ELSE IF e.hasIncompletePart THEN "incomplete"
        ELSE IF u.extractEmail # NONE /\ (everRequestedHuman(history) \/ pending \/ u.wantsHuman)
        THEN "ticket"
        ELSE IF u.wantsHuman \/ pending THEN "email"
        ELSE IF u.looksLikeAck THEN "ack"
        ELSE IF u.looksLikeSmallTalk /\ awaiting = NoSlot THEN "smalltalk"
        ELSE IF handled # << >> THEN "slot"
        ELSE "dispatch"
      withIntent(awaiting, intent0, e, appliance) ==
        [exit |-> exitOf(awaiting, e,
                         handoffPending(history) /\ ~u.isClearIntentShift /\ u.extractEmail = NONE,
                         slotHandler(awaiting, message, history,
                                     [inDomain |-> TRUE, intent |-> intent0,
                                      extracted |-> [partNumber |-> e.partNumber,
                                                     modelNumber |-> e.modelNumber,
                                                     appliance |-> appliance],
                                      toolsUsed |-> << >>, sources |-> << >>],
                                     "pending")),
         awaiting |-> awaiting,
         intent |-> routedIntent(awaiting, intent0, message),
         partNumber |-> e.partNumber,
         modelNumber |-> e.modelNumber,
         appliance |-> appliance]
      withAwaiting(awaiting, e, appliance) ==
        withIntent(awaiting, stickyIntent(awaiting, u.inferIntent, u), e, appliance)
      withAppliance(appliance) ==
        withAwaiting(activeAwaiting(message, history, appliance),
                     resolveEntities(message, history, appliance), appliance)
  IN withAppliance(inferPinnedAppliance(message, history))

\* ------------------------------------------------------------------------
\* The classifier adapter (groqHelpers.ts)
\* ------------------------------------------------------------------------
\* JSON.parse on the texts of the model: strings without escapes, integers,
\* null/true/false, arrays and objects.  A value is a record tagged by t.
JsonSpace == {" ", "\n", "\t", "\r"}
jsonSkip(s, i) == i + runLen(s, i, JsonSpace)
JsonFail == [ok |-> FALSE]
JsonOk(v, n) == [ok |-> TRUE, val |-> v, next |-> n]

RECURSIVE jsonValue(_, _), jsonItems(_, _, _), jsonMembers(_, _, _, _)
\* the value that starts at position i (white space already skipped)
jsonValue(s, i) ==
  IF i > Len(s) THEN JsonFail
  ELSE IF Ch(s, i) = "\""
  THEN LET close == { j \in (i + 1)..Len(s) : Ch(s, j) = "\"" }
       IN IF close = {} \/ includes(SubSeq(s, i + 1, Min(close) - 1), "\\") THEN JsonFail
          ELSE JsonOk([t |-> "str", s |-> SubSeq(s, i + 1, Min(close) - 1)], Min(close) + 1)
  ELSE IF \E w \in {"null", "true", "false"} : startsAt(s, i, w)
  THEN LET w == CHOOSE x \in {"null", "true", "false"} : startsAt(s, i, x)
       IN JsonOk([t |-> "lit", s |-> w], i + Len(w))
  ELSE IF Ch(s, i) \in DigitSet \ {"0"} \/ (Ch(s, i) = "0" /\ runLen(s, i, DigitSet) = 1)
  THEN JsonOk([t |-> "num", s |-> SubSeq(s, i, i + runLen(s, i, DigitSet) - 1)],
              i + runLen(s, i, DigitSet))
  ELSE IF Ch(s, i) = "["
  THEN (IF startsAt(s, jsonSkip(s, i + 1), "]")
        THEN JsonOk([t |-> "arr", items |-> << >>], jsonSkip(s, i + 1) + 1)
        ELSE jsonItems(s, jsonSkip(s, i + 1), << >>))
  ELSE IF Ch(s, i) = "{"
  THEN (IF startsAt(s, jsonSkip(s, i + 1), "}")
        THEN JsonOk([t |-> "obj", keys |-> << >>, vals |-> << >>], jsonSkip(s, i + 1) + 1)
        ELSE jsonMembers(s, jsonSkip(s, i + 1), << >>, << >>))
  ELSE JsonFail

\* the items of an array from position i, after items acc
jsonItems(s, i, acc) ==
  LET v == jsonValue(s, i)
      n == IF v.ok THEN jsonSkip(s, v.next) ELSE 0
  IN IF ~v.ok THEN JsonFail
     ELSE IF startsAt(s, n, "]") THEN JsonOk([t |-> "arr", items |-> Append(acc, v.val)], n + 1)
     ELSE IF startsAt(s, n, ",") THEN jsonItems(s, jsonSkip(s, n + 1), Append(acc, v.val))
     ELSE JsonFail

\* the members of an object from position i, after the members ks, vs
jsonMembers(s, i, ks, vs) ==
  LET k == jsonValue(s, i)
      c == IF k.ok THEN jsonSkip(s, k.next) ELSE 0
      v == IF k.ok /\ startsAt(s, c, ":") THEN jsonValue(s, jsonSkip(s, c + 1)) ELSE JsonFail
      n == IF v.ok THEN jsonSkip(s, v.next) ELSE 0
  IN IF ~k.ok \/ k.val.t # "str" \/ ~v.ok THEN JsonFail
     ELSE IF startsAt(s, n, "}")
     THEN JsonOk([t |-> "obj", keys |-> Append(ks, k.val.s), vals |-> Append(vs, v.val)], n + 1)
     ELSE IF startsAt(s, n, ",")
     THEN jsonMembers(s, jsonSkip(s, n + 1), Append(ks, k.val.s), Append(vs, v.val))
     ELSE JsonFail

\* JSON.parse: a sequence of at most one value, empty when it throws
JsonParse(s) ==
  LET whole(v) == IF v.ok /\ jsonSkip(s, v.next) = Len(s) + 1 THEN << v.val >> ELSE << >>
  IN whole(jsonValue(s, jsonSkip(s, 1)))

\* empty: null
safeJsonParse(s) ==
  LET between(open, close) ==
        IF open = {} \/ close = {} \/ Max(close) < Min(open) THEN << >>
        ELSE JsonParse(SubSeq(s, Min(open), Max(close)))
      orBraces(parsed) ==
        IF parsed # << >> THEN parsed
        ELSE between({ i \in 1..Len(s) : Ch(s, i) = "{" }, { i \in 1..Len(s) : Ch(s, i) = "}" })
  IN orBraces(JsonParse(s))

\* obj?.pump_sound: a sequence of at most one value, empty when undefined
pumpSoundProperty(obj) ==
  IF obj = << >> \/ obj[1].t # "obj" THEN << >>
  ELSE LET hits == { i \in 1..Len(obj[1].keys) : obj[1].keys[i] = "pump_sound" }
       IN IF hits = {} THEN << >> ELSE << obj[1].vals[Max(hits)] >>

\* String(v) of a parsed value
RECURSIVE jsString(_), jsJoin(_)
jsString(v) ==
  IF v.t = "str" \/ v.t = "num" \/ v.t = "lit" THEN v.s
  ELSE IF v.t = "arr" THEN jsJoin(v.items)
  ELSE "[object Object]"
jsJoin(items) ==
  IF Len(items) = 0 THEN ""
  ELSE (IF items[1].t = "lit" /\ items[1].s = "null" THEN "" ELSE jsString(items[1]))
       \o (IF Len(items) > 1 THEN "," \o jsJoin(Tail(items)) ELSE "")

\* the value lower-cased and trimmed, whatever it is
normalizePumpSoundUnfiltered(x) ==
  toLowerCase(trim(IF x = << >> \/ (x[1].t = "lit" /\ x[1].s = "null")
                   THEN "" ELSE jsString(x[1])))

\* x is a sequence of at most one value (empty: undefined)
normalizePumpSound(x) ==
  LET oneOf(v) ==
        IF v = "running" THEN "running"
        ELSE IF v = "humming" THEN "humming"
        ELSE IF v = "silent" THEN "silent"
        ELSE "unknown"
  IN oneOf(toLowerCase(trim(IF x = << >> \/ (x[1].t = "lit" /\ x[1].s = "null")
                            THEN "" ELSE jsString(x[1]))))

\* what groqParsePumpSound returns for the content of the first choice
classify(content) == normalizePumpSound(pumpSoundProperty(safeJsonParse(content)))

\* the contents the service may answer with (NONE: no content in the body)
Contents ==
  {"{\"pump_sound\": \"humming\"}", "{\"pump_sound\":\" Running \"}",
   "Sure: {\"pump_sound\": \"silent\"}.", "{\"pump_sound\": \"grinding\"}",
   "{\"sound\": \"humming\"}", "{\"pump_sound\": [\"silent\"]}", "humming", NONE}

\* the delay of the timer of withTimeout, in milliseconds
GROQ_TIMEOUT_MS == 1200

\* ------------------------------------------------------------------------
\* The conversation: a client that sends each message with the history so
\* far and appends the reply, the stateless handler, the classifier call
\* ------------------------------------------------------------------------
VARIABLES
  history,   \* the turns the client holds: what it sends as req.history
  budget,    \* the number of messages the client may still send
  data,      \* what the data files hold
  apiKey,    \* whether GROQ_API_KEY is set
  pc,        \* "idle", or "classifying": the handler awaits groqParsePumpSound
  req,       \* the request being handled, then the last one handled
  resp,      \* the response to req (NoResp while it is being handled)
  prev,      \* the response to the same request sent before (else NoResp)
  call,      \* the call of groqParsePumpSound of the turn (calls: how many so far)
  clock,     \* milliseconds since groqParsePumpSound was called, while it is pending
  nodeEnv,   \* process.env.NODE_ENV (NONE: not set)
  http,      \* the last POST /api/chat: the message it carried, the status of its
             \* response (0 while the handler is suspended), whether handleChatTurn
             \* was called and the message of the error it threw (NONE: none)
  peer,      \* the request of a second client that the server handles while the
             \* handler of req is suspended: its own pc, req, resp, call and clock
  race       \* a call of withTimeout(p, ms): the wrapped promise p, the timer and
             \* the promise returned

vars ==
  <<history, budget, data, apiKey, pc, req, resp, prev, call, clock, nodeEnv, http, peer, race>>

MaxTurns == 2
MaxFollowUps == 1
MaxTicks == 3
MaxCalls == 2
MaxFlowTurns == 4

\* the instants the clock takes: the timer's delay falls on one of them
Instants == { k * (GROQ_TIMEOUT_MS \div 2) : k \in 0..MaxTicks }

NoReq == [message |-> NONE, history |-> << >>]
NoResp == [reply |-> NONE]
\* The values JSON.parse can give body.message, each with its typeof and its
\* truthiness; value is the text of a string, else the JSON text
JsString(m) == [type |-> "string", value |-> m, truthy |-> m # ""]
JsMissing == [type |-> "undefined", value |-> NONE, truthy |-> FALSE]
JsNull == [type |-> "object", value |-> "null", truthy |-> FALSE]
JsNumber(n, truthy) == [type |-> "number", value |-> n, truthy |-> truthy]
JsTrue == [type |-> "boolean", value |-> "true", truthy |-> TRUE]
JsArray == [type |-> "object", value |-> "[]", truthy |-> TRUE]

\* the messages a request may carry that are no text of the chat page
MessageValues ==
  { JsMissing, JsNull, JsNumber("0", FALSE), JsNumber("42", TRUE), JsTrue, JsArray,
    JsString(""), JsString("My dishwasher is not draining") }

\* a turn of the history that is JSON null
NullTurn == [role |-> "null", content |-> NONE]
\* the histories such a request may carry
RawHistories ==
  { << >>,
    << NullTurn >>,
    << User("My dishwasher is not draining"), Assistant(troubleshootDishwasher(NONE, FALSE)),
       NullTurn >> }

NoHttp == [status |-> 0, message |-> JsMissing, invoked |-> FALSE, threw |-> NONE]

NoCall == [state |-> "none", timer |-> "off", requested |-> FALSE, outcome |-> "none",
           content |-> NONE, result |-> "none", calls |-> 0]

\* a promise: pending, fulfilled with a value or rejected with a reason
Pending == [status |-> "pending", value |-> NONE]
Fulfilled(v) == [status |-> "fulfilled", value |-> v]
Rejected(e) == [status |-> "rejected", value |-> e]

\* withTimeout has not been called
NoRace == [ms |-> 0, p |-> Pending, timer |-> "off", out |-> Pending, calls |-> 0]

\* no second request has been received
NoPeer == [pc |-> "none", req |-> NoReq, ticketNo |-> NONE, resp |-> NoResp, call |-> NoCall,
           clock |-> 0]

Init ==
  /\ history = << >>
  /\ budget = MaxTurns
  /\ data \in DataSets
  /\ apiKey \in BOOLEAN
  /\ pc = "idle"
  /\ req = NoReq
  /\ resp = NoResp
  /\ prev = NoResp
  /\ call = NoCall
  /\ clock = 0
  /\ nodeEnv = "production"
  /\ http = NoHttp
  /\ peer = NoPeer
  /\ race = NoRace

\* The handler keeps nothing between requests: the history is what the
\* client sends.  A conversation picked up after the exchange that a
\* dishwasher complaint opened, where any reply of the router may be the
\* last assistant turn, and an exchange about the refrigerator may precede,
\* alone or followed by an earlier dishwasher complaint.
OlderTurns ==
  { << >>,
    << User("my fridge is not cooling"), Assistant(replyTroubleshootFridge(FALSE)) >>,
    << User("my fridge is not cooling"), Assistant(replyTroubleshootFridge(FALSE)),
       User("My dishwasher is not draining"), Assistant(troubleshootDishwasher(NONE, FALSE)) >> }

\* The handler reads an assistant turn through its row only: of the texts
\* with the same row, one opens a conversation.
OpeningTexts ==
  LET row(A, a) == [A[a] EXCEPT !.content = NONE]
      oneOfEach(A) ==
        { CHOOSE b \in AssistantTexts : row(A, b) = row(A, a) : a \in AssistantTexts }
  IN oneOfEach(AssistantMemo)

InitOpened ==
  /\ \E older \in OlderTurns, a \in OpeningTexts :
       history = older \o << User("My dishwasher is not draining"), Assistant(a) >>
  /\ budget = MaxFollowUps
  /\ data = IndexedData
  /\ apiKey \in BOOLEAN
  /\ pc = "idle"
  /\ req = NoReq
  /\ resp = NoResp
  /\ prev = NoResp
  /\ call = NoCall
  /\ clock = 0
  /\ nodeEnv = "production"
  /\ http = NoHttp
  /\ peer = NoPeer
  /\ race = NoRace

\* POST /api/chat: the handler on the request (m, h), reading the texts
\* through their tabulated rows
chatTurn(U, A, m, h, d, ticketNo, llm) ==
  handleChatTurn(WithMemo(U, m), HistoryWithMemo(U, A, h), d, ticketNo, llm)
postChat(m, h, d, ticketNo, llm) == chatTurn(UserMemo, AssistantMemo, m, h, d, ticketNo, llm)

\* the history the client sends with message m after the turns shown: the
\* turns including the message just typed (own), as the chat page sends it,
\* or the turns before it
sentHistory(shown, m, own) == IF own THEN Append(shown, User(m)) ELSE shown

\* the test of body.message that guards handleChatTurn, negated
validMessageAnyString(message) == message.type = "string"

validMessage(message) == message.truthy /\ message.type = "string"

\* the response to a request without a message (no cards field)
badRequest ==
  [reply |-> "Please provide a message.", meta |-> [inDomain |-> FALSE, intent |-> "unknown"]]

\* the response that always carries the error message
failResponseWithError(env, msg) ==
  [reply |-> "Sorry ~ something went wrong on our side.",
   meta |-> [inDomain |-> TRUE, intent |-> "unknown", error |-> msg]]

\* the response of the catch clause, msg the message of the error caught
failResponse(env, msg) ==
  [reply |-> "Sorry ~ something went wrong on our side.",
   meta |-> IF env # "production"
            THEN [inDomain |-> TRUE, intent |-> "unknown", error |-> msg]
            ELSE [inDomain |-> TRUE, intent |-> "unknown"]]

\* The error handleChatTurn throws on history h, NONE when it throws none:
\* reading .role of a turn that is null is a TypeError.  lastAssistant reads
\* the turns from the last one down to the last assistant turn, and
\* countUserRepeatsExcludingCurrent reads the last turn and every turn
\* before it, both before any return.
thrownBy(h) ==
  IF \E i \in 1..Len(h) : h[i] = NullTurn
  THEN "Cannot read properties of null (reading 'role')"
  ELSE NONE

\* the handler returns r: the client shows the exchange
Respond(m, h, r) ==
  /\ resp' = r
  /\ history' = IF Len(h) > 0 /\ h[Len(h)].role = "user"
                THEN Append(h, Assistant(r.reply))
                ELSE h \o << User(m), Assistant(r.reply) >>
  /\ pc' = "idle"

\* groqParsePumpSound is called, for the k-th time in the turn: it returns
\* "unknown" at once when no key is set, else it sends the request and arms
\* the timer
Invoked(k) ==
  IF apiKey
  THEN [NoCall EXCEPT !.state = "fetch", !.timer = "armed", !.requested = TRUE, !.calls = k]
  ELSE [NoCall EXCEPT !.state = "returned", !.outcome = "no_key", !.result = "unknown",
                      !.calls = k]

\* the handler has run on (m, h) up to r: its response, or the suspension at
\* the classifier call
Begin(m, h, p, r) ==
  /\ req' = [message |-> m, history |-> h]
  /\ prev' = p
  /\ clock' = 0
  /\ http' = [status |-> IF r # AwaitsClassifier THEN 200 ELSE 0, message |-> JsString(m),
               invoked |-> TRUE, threw |-> NONE]
  /\ IF r # AwaitsClassifier
     THEN Respond(m, h, r) /\ call' = NoCall
     ELSE /\ pc' = "classifying"
          /\ resp' = NoResp
          /\ history' = h
          /\ call' = Invoked(1)
  /\ UNCHANGED <<data, apiKey, nodeEnv, peer, race>>

\* handleChatTurn is called with message m and history h; n is the ticket
\* number drawn if a ticket is opened, p the response this request got before
Handle(m, h, n, p) == Begin(m, h, p, postChat(m, h, data, n, "pending"))

\* POST /api/chat with body.message = message and body.history = h: a body
\* without a text is answered 400 and handleChatTurn is not called; an error
\* it throws is caught and answered 500
Post(message, h, n, p) ==
  LET answer(status, r, invoked, threw) ==
        /\ resp' = r
        /\ http' = [status |-> status, message |-> message, invoked |-> invoked,
                    threw |-> threw]
        /\ UNCHANGED <<history, data, apiKey, pc, req, prev, call, clock, nodeEnv, peer, race>>
      caught(msg) ==
        IF msg # NONE THEN answer(500, failResponse(nodeEnv, msg), TRUE, msg)
        ELSE Handle(message.value, h, n, p)
  IN IF ~validMessage(message) THEN answer(400, badRequest, FALSE, NONE)
     ELSE caught(thrownBy(h))

\* the numbers Math.random may yield on a turn with message m: a ticket is
\* opened, and a number drawn, only when the message holds an email address
TicketDraws(m) ==
  IF m \in Texts /\ UserMemo[m].extractEmail # NONE THEN TicketDigits ELSE {NONE}

\* the user sends a message
Submit(m, n, own) ==
  /\ pc = "idle"
  /\ budget > 0
  /\ budget' = budget - 1
  /\ Post(JsString(m), sentHistory(history, m, own), n, NoResp)

\* another client of the interface sends a request
Request(message, h) ==
  /\ pc = "idle"
  /\ budget > 0
  /\ budget' = budget - 1
  /\ Post(message, h, NONE, NoResp)

\* the client sends the last request again, unchanged
Resubmit ==
  /\ pc = "idle"
  /\ req # NoReq
  /\ prev = NoResp
  /\ http.status = 200
  /\ budget' = budget
  /\ \E n \in TicketDraws(req.message) : Post(JsString(req.message), req.history, n, resp)

\* groqParsePumpSound returns v
Return(v, outcome, content, timer) ==
  /\ call' = [call EXCEPT !.state = "returned", !.timer = timer, !.outcome = outcome,
                          !.content = content, !.result = v]
  /\ clock' = 0
  /\ UNCHANGED <<history, budget, data, apiKey, pc, req, resp, prev, nodeEnv, http, peer, race>>

\* fetch resolves with the response headers: withTimeout clears the timer;
\* a status that is not ok returns "unknown", else the body is awaited
FetchResolve(ok) ==
  /\ pc = "classifying" /\ call.state = "fetch" /\ call.timer = "armed"
  /\ IF ok
     THEN /\ call' = [call EXCEPT !.state = "body", !.timer = "cleared"]
          /\ UNCHANGED <<history, budget, data, apiKey, pc, req, resp, prev, clock, nodeEnv, http,
                      peer, race>>
     ELSE Return("unknown", "http_error", NONE, "cleared")

\* fetch rejects (network error)
FetchReject ==
  /\ pc = "classifying" /\ call.state = "fetch" /\ call.timer = "armed"
  /\ Return("unknown", "network_error", NONE, "cleared")

\* the timer of withTimeout fires before fetch has settled
TimerFire ==
  /\ pc = "classifying" /\ call.state = "fetch" /\ call.timer = "armed"
  /\ clock >= GROQ_TIMEOUT_MS
  /\ Return("unknown", "timeout", NONE, "fired")

\* resp.json() resolves: content is the content of the first choice
BodyArrive(content) ==
  /\ pc = "classifying" /\ call.state = "body"
  /\ Return(classify(content), "classified", content, call.timer)

\* resp.json() rejects (the body is cut short or is not JSON)
BodyFail ==
  /\ pc = "classifying" /\ call.state = "body"
  /\ Return("unknown", "body_error", NONE, call.timer)

\* the handler that keeps the request in a variable of the module, which
\* the call received last overwrites
resumedOnShared(own, other, d, llm) ==
  IF other = NoReq THEN postChat(own.message, own.history, d, NONE, llm)
  ELSE postChat(other.message, other.history, d, NONE, llm)

\* What a call of handleChatTurn runs on after its await: message, history,
\* awaiting and metaBase are locals of the call (own), and no variable of
\* the module holds anything of a request, so the request of the other call
\* handled meanwhile (other) is not read.
resumed(own, other, d, llm) == postChat(own.message, own.history, d, NONE, llm)

\* the handler resumes after "await groqParsePumpSound(message)" and runs to
\* its response
Resume ==
  LET continue(r) ==
        IF r # AwaitsClassifier
        THEN /\ Respond(req.message, req.history, r)
             /\ http' = [http EXCEPT !.status = 200]
             /\ UNCHANGED <<call, clock>>
        ELSE /\ call.calls < MaxCalls
             /\ call' = Invoked(call.calls + 1)
             /\ clock' = 0
             /\ UNCHANGED <<history, pc, resp, http>>
  IN /\ pc = "classifying" /\ call.state = "returned"
     /\ continue(resumed(req, peer.req, data, call.result))
     /\ UNCHANGED <<budget, data, apiKey, req, prev, nodeEnv, peer, race>>

\* time passes while groqParsePumpSound is pending; an armed timer fires at
\* its delay, so time does not pass beyond it
Tick ==
  /\ pc = "classifying" /\ call.state \in {"fetch", "body"}
  /\ ~(call.timer = "armed" /\ clock >= GROQ_TIMEOUT_MS)
  /\ \E t \in Instants : t > clock
  /\ clock' = Min({ t \in Instants : t > clock })
  /\ UNCHANGED <<history, budget, data, apiKey, pc, req, resp, prev, call, nodeEnv, http, peer, race>>

Next ==
  \/ \E m \in Messages, own \in BOOLEAN : \E n \in TicketDraws(m) : Submit(m, n, own)
  \/ Resubmit
  \/ \E ok \in BOOLEAN : FetchResolve(ok)
  \/ FetchReject
  \/ TimerFire
  \/ \E c \in Contents : BodyArrive(c)
  \/ BodyFail
  \/ Resume
  \/ Tick

Spec == Init /\ [][Next]_vars

SpecOpened == InitOpened /\ [][Next]_vars

\* Any client of the HTTP interface: requests without a text or with a
\* history that is no list of turns, questions that lack an entity, order
\* questions; NODE_ENV is "production" or is not set (the code compares it
\* with "production" only).
InitApi ==
  /\ history = << >>
  /\ budget = MaxTurns
  /\ data \in DataSets
  /\ apiKey \in BOOLEAN
  /\ pc = "idle"
  /\ req = NoReq
  /\ resp = NoResp
  /\ prev = NoResp
  /\ call = NoCall
  /\ clock = 0
  /\ nodeEnv \in {"production", NONE}
  /\ http = NoHttp
  /\ peer = NoPeer
  /\ race = NoRace

NextApi ==
  \/ \E m \in EntityMessages, own \in BOOLEAN : \E n \in TicketDraws(m) : Submit(m, n, own)
  \/ \E message \in MessageValues, h \in RawHistories : Request(message, h)
  \/ Resubmit
  \/ \E ok \in BOOLEAN : FetchResolve(ok)
  \/ FetchReject
  \/ TimerFire
  \/ \E c \in Contents : BodyArrive(c)
  \/ BodyFail
  \/ Resume
  \/ Tick

SpecApi == InitApi /\ [][NextApi]_vars

\* Two clients.  Node handles one request until it awaits: a second request
\* is received while the handler of the first is suspended at
\* "await groqParsePumpSound(message)" with the fetch or the body pending,
\* and the two handlers then resume in either order.
PeerMessages ==
  {"not sure", "humming", "How can I install part number PS11752778?", "human name@email.com"}
PeerHistories ==
  { << >>,
    << User("My dishwasher is not draining"), Assistant(troubleshootDishwasher(NONE, FALSE)) >> }

main == <<history, budget, data, apiKey, pc, req, resp, prev, call, clock, nodeEnv, http, race>>

\* POST /api/chat of the second client, n the ticket number drawn if a
\* ticket is opened
PeerPost(m, h, n) ==
  LET begun(r) ==
        peer' = [pc |-> IF r = AwaitsClassifier THEN "classifying" ELSE "idle",
                 req |-> [message |-> m, history |-> h],
                 ticketNo |-> n,
                 resp |-> IF r = AwaitsClassifier THEN NoResp ELSE r,
                 call |-> IF r = AwaitsClassifier THEN Invoked(1) ELSE NoCall,
                 clock |-> 0]
  IN /\ pc = "classifying" /\ call.state \in {"fetch", "body"}
     /\ peer = NoPeer
  /\ race = NoRace
     /\ begun(postChat(m, h, data, n, "pending"))
     /\ UNCHANGED main

\* groqParsePumpSound of the second call returns v
PeerReturn(v, outcome, content, timer) ==
  /\ peer' = [peer EXCEPT !.call = [@ EXCEPT !.state = "returned", !.timer = timer,
                                             !.outcome = outcome, !.content = content,
                                             !.result = v],
                           !.clock = 0]
  /\ UNCHANGED main

PeerFetchResolve(ok) ==
  /\ peer.pc = "classifying" /\ peer.call.state = "fetch" /\ peer.call.timer = "armed"
  /\ IF ok
     THEN /\ peer' = [peer EXCEPT !.call = [@ EXCEPT !.state = "body", !.timer = "cleared"]]
          /\ UNCHANGED main
     ELSE PeerReturn("unknown", "http_error", NONE, "cleared")

PeerFetchReject ==
  /\ peer.pc = "classifying" /\ peer.call.state = "fetch" /\ peer.call.timer = "armed"
  /\ PeerReturn("unknown", "network_error", NONE, "cleared")

PeerTimerFire ==
  /\ peer.pc = "classifying" /\ peer.call.state = "fetch" /\ peer.call.timer = "armed"
  /\ peer.clock >= GROQ_TIMEOUT_MS
  /\ PeerReturn("unknown", "timeout", NONE, "fired")

PeerBodyArrive(content) ==
  /\ peer.pc = "classifying" /\ peer.call.state = "body"
  /\ PeerReturn(classify(content), "classified", content, peer.call.timer)

PeerBodyFail ==
  /\ peer.pc = "classifying" /\ peer.call.state = "body"
  /\ PeerReturn("unknown", "body_error", NONE, peer.call.timer)

\* the second handler resumes after its await and runs to its response
PeerResume ==
  LET continue(r) ==
        IF r # AwaitsClassifier
        THEN peer' = [peer EXCEPT !.pc = "idle", !.resp = r]
        ELSE /\ peer.call.calls < MaxCalls
             /\ peer' = [peer EXCEPT !.call = Invoked(peer.call.calls + 1), !.clock = 0]
  IN /\ peer.pc = "classifying" /\ peer.call.state = "returned"
     /\ continue(resumed(peer.req, req, data, peer.call.result))
     /\ UNCHANGED main

PeerTick ==
  /\ peer.pc = "classifying" /\ peer.call.state \in {"fetch", "body"}
  /\ ~(peer.call.timer = "armed" /\ peer.clock >= GROQ_TIMEOUT_MS)
  /\ \E t \in Instants : t > peer.clock
  /\ peer' = [peer EXCEPT !.clock = Min({ t \in Instants : t > peer.clock })]
  /\ UNCHANGED main

\* the first client is at the question about the pump
InitConcurrent ==
  /\ history = << User("My dishwasher is not draining"),
                  Assistant(troubleshootDishwasher(NONE, FALSE)) >>
  /\ budget = MaxFollowUps
  /\ data = IndexedData
  /\ apiKey \in BOOLEAN
  /\ pc = "idle"
  /\ req = NoReq
  /\ resp = NoResp
  /\ prev = NoResp
  /\ call = NoCall
  /\ clock = 0
  /\ nodeEnv = "production"
  /\ http = NoHttp
  /\ peer = NoPeer
  /\ race = NoRace

NextConcurrent ==
  \/ \E m \in Messages \cup ReadmeMessages, own \in BOOLEAN :
       \E n \in TicketDraws(m) : Submit(m, n, own)
  \/ \E ok \in BOOLEAN : FetchResolve(ok)
  \/ FetchReject
  \/ TimerFire
  \/ \E c \in Contents : BodyArrive(c)
  \/ BodyFail
  \/ Resume
  \/ Tick
  \/ \E m \in PeerMessages, h \in PeerHistories : \E n \in TicketDraws(m) : PeerPost(m, h, n)
  \/ \E ok \in BOOLEAN : PeerFetchResolve(ok)
  \/ PeerFetchReject
  \/ PeerTimerFire
  \/ \E c \in Contents : PeerBodyArrive(c)
  \/ PeerBodyFail
  \/ PeerResume
  \/ PeerTick

SpecConcurrent == InitConcurrent /\ [][NextConcurrent]_vars

\* a user whose messages carry the signals of several intents
NextIntent ==
  \/ \E m \in IntentMessages, own \in BOOLEAN : \E n \in TicketDraws(m) : Submit(m, n, own)
  \/ Resubmit
  \/ \E ok \in BOOLEAN : FetchResolve(ok)
  \/ FetchReject
  \/ TimerFire
  \/ \E c \in Contents : BodyArrive(c)
  \/ BodyFail
  \/ Resume
  \/ Tick

SpecIntent == Init /\ [][NextIntent]_vars

\* a user who answers the open question with a short text
NextFollowUp ==
  \/ \E m \in FollowUpMessages, own \in BOOLEAN : \E n \in TicketDraws(m) : Submit(m, n, own)
  \/ \E ok \in BOOLEAN : FetchResolve(ok)
  \/ FetchReject
  \/ TimerFire
  \/ \E c \in Contents : BodyArrive(c)
  \/ BodyFail
  \/ Resume
  \/ Tick

SpecFollowUp == InitOpened /\ [][NextFollowUp]_vars

\* The dishwasher drain flow: the user has said that the dishwasher does not
\* drain, the router has asked about the pump, and the user answers one
\* question after the other on the chat page.
InitFlow ==
  /\ history = << User("My dishwasher is not draining"),
                  Assistant(troubleshootDishwasher(NONE, FALSE)) >>
  /\ budget = MaxFlowTurns
  /\ data = IndexedData
  /\ apiKey \in BOOLEAN
  /\ pc = "idle"
  /\ req = NoReq
  /\ resp = NoResp
  /\ prev = NoResp
  /\ call = NoCall
  /\ clock = 0
  /\ nodeEnv = "production"
  /\ http = NoHttp
  /\ peer = NoPeer
  /\ race = NoRace

NextFlow ==
  \/ \E m \in FlowAnswers : Submit(m, NONE, TRUE)
  \/ \E ok \in BOOLEAN : FetchResolve(ok)
  \/ FetchReject
  \/ TimerFire
  \/ \E c \in Contents : BodyArrive(c)
  \/ BodyFail
  \/ Resume
  \/ Tick

SpecFlow == InitFlow /\ [][NextFlow]_vars

\* A long conversation: older user turns, then the eight most recent ones, of
\* which some name the dishwasher, some the refrigerator and the rest neither;
\* each user turn is followed by the router's reply to it.
MaxVotes == 3
PIN_WINDOW == 8

PinnedHistories ==
  LET dw == "My dishwasher is not draining"
      rf == "my fridge is not cooling"
      reply(m) == IF m = dw THEN troubleshootDishwasher(NONE, FALSE)
                  ELSE IF m = rf THEN replyTroubleshootFridge(FALSE)
                  ELSE replyHome
      times(m, n) == [k \in 1..n |-> m]
      turns(msgs) ==
        [k \in 1..(2 * Len(msgs)) |->
           IF k % 2 = 1 THEN User(msgs[(k + 1) \div 2]) ELSE Assistant(reply(msgs[k \div 2]))]
  IN { turns(older \o times("not sure", PIN_WINDOW - i - j) \o times(dw, i) \o times(rf, j)) :
         older \in { << >>, << rf >>, << rf, rf >>, << dw >> },
         i \in 0..MaxVotes, j \in 0..MaxVotes }

InitPinned ==
  /\ history \in PinnedHistories
  /\ budget = MaxFollowUps
  /\ data = IndexedData
  /\ apiKey \in BOOLEAN
  /\ pc = "idle"
  /\ req = NoReq
  /\ resp = NoResp
  /\ prev = NoResp
  /\ call = NoCall
  /\ clock = 0
  /\ nodeEnv = "production"
  /\ http = NoHttp
  /\ peer = NoPeer
  /\ race = NoRace

NextPinned ==
  \/ \E m \in PinnedMessages, own \in BOOLEAN : Submit(m, NONE, own)
  \/ \E ok \in BOOLEAN : FetchResolve(ok)
  \/ FetchReject
  \/ TimerFire
  \/ \E c \in Contents : BodyArrive(c)
  \/ BodyFail
  \/ Resume
  \/ Tick

SpecPinned == InitPinned /\ [][NextPinned]_vars

\* A user who asks the same installation question again and again: the
\* question has been asked and answered 0..MaxRepeats times before, and the
\* client sends it with or without its own copy of it in the history.
MaxRepeats == 2

RepeatMessages ==
  {"How can I install part number PS11752778?", "clamps", "not sure", "hello", "thanks"}

RepeatHistories ==
  LET asked == << User("How can I install part number PS11752778?"),
                  Assistant(compactInstallSteps("PS11752778", NONE)) >>
      times(k) == [i \in 1..(2 * k) |-> asked[2 - (i % 2)]]
  IN { times(k) : k \in 0..MaxRepeats }

InitRepeat ==
  /\ history \in RepeatHistories
  /\ budget = MaxFollowUps
  /\ data \in DataSets
  /\ apiKey = FALSE
  /\ pc = "idle"
  /\ req = NoReq
  /\ resp = NoResp
  /\ prev = NoResp
  /\ call = NoCall
  /\ clock = 0
  /\ nodeEnv = "production"
  /\ http = NoHttp
  /\ peer = NoPeer
  /\ race = NoRace

NextRepeat ==
  \/ \E m \in RepeatMessages, own \in BOOLEAN : Submit(m, NONE, own)
  \/ Resubmit

SpecRepeat == InitRepeat /\ [][NextRepeat]_vars

\* A user who asks for a person, at the start of a conversation or while a
\* question of the drain flow or of the installation flow is open.
HandoffHistories ==
  { << >>,
    << User("My dishwasher is not draining"), Assistant(troubleshootDishwasher(NONE, FALSE)) >>,
    << User("How can I install part number PS11752778?"),
       Assistant(compactInstallSteps("PS11752778", NONE)) >> }

InitHandoff ==
  /\ history \in HandoffHistories
  /\ budget = MaxTurns
  /\ data = IndexedData
  /\ apiKey \in BOOLEAN
  /\ pc = "idle"
  /\ req = NoReq
  /\ resp = NoResp
  /\ prev = NoResp
  /\ call = NoCall
  /\ clock = 0
  /\ nodeEnv = "production"
  /\ http = NoHttp
  /\ peer = NoPeer
  /\ race = NoRace

NextHandoff ==
  \/ \E m \in HandoffMessages, own \in BOOLEAN : \E n \in TicketDraws(m) : Submit(m, n, own)
  \/ \E ok \in BOOLEAN : FetchResolve(ok)
  \/ FetchReject
  \/ TimerFire
  \/ \E c \in Contents : BodyArrive(c)
  \/ BodyFail
  \/ Resume
  \/ Tick

SpecHandoff == InitHandoff /\ [][NextHandoff]_vars

\* withTimeout(p, ms) on its own.  The executor arms the timer and attaches
\* the callbacks to p; a promise keeps its first settlement, so resolve and
\* reject do nothing on a promise that is settled.  The callbacks of p run as
\* microtasks, before any timer callback that is due after p has settled.
\* what p may be fulfilled with (a Response) or rejected with
Outcomes ==
  {Fulfilled("status 200"), Fulfilled("status 429"), Fulfilled("status 500"),
   Rejected("fetch failed"), Rejected("aborted")}

\* resolve and reject as they would be if a settled promise took the
\* settlement handed to it last
settleAgain(out, s) == s

\* resolve or reject called with the settlement s on the promise out
settle(out, s) == IF out.status = "pending" THEN s ELSE out

\* the callbacks of p.then(...).catch(...) have run on the settlement s of p
onSettled(r, s) ==
  [r EXCEPT !.p = s,
            !.timer = IF r.timer = "armed" THEN "cleared" ELSE r.timer,
            !.out = settle(r.out, s)]

\* the callback of setTimeout has run
onTimeout(r) ==
  [r EXCEPT !.timer = "fired", !.out = settle(r.out, Rejected("GROQ_TIMEOUT"))]

\* withTimeout(p, ms) is called with a pending p, the call before it being over
WtCall(ms) ==
  /\ race.calls < MaxCalls
  /\ race.calls > 0 => (race.p.status # "pending" /\ race.timer # "armed")
  /\ race' = [ms |-> ms, p |-> Pending, timer |-> "armed", out |-> Pending,
              calls |-> race.calls + 1]
  /\ clock' = 0
  /\ UNCHANGED <<history, budget, data, apiKey, pc, req, resp, prev, call, nodeEnv, http, peer>>

\* p settles, before or after the timer has fired
WtSettle(s) ==
  /\ race.timer # "off" /\ race.p.status = "pending"
  /\ race' = onSettled(race, s)
  /\ UNCHANGED <<history, budget, data, apiKey, pc, req, resp, prev, call, clock, nodeEnv, http,
                 peer>>

\* the timer fires: ms milliseconds have passed and it was not cleared
WtTimerFire ==
  /\ race.timer = "armed" /\ clock >= race.ms
  /\ race' = onTimeout(race)
  /\ UNCHANGED <<history, budget, data, apiKey, pc, req, resp, prev, call, clock, nodeEnv, http,
                 peer>>

\* time passes; an armed timer fires at the latest when its delay is over
WtTick ==
  /\ race.timer # "off" /\ race.p.status = "pending"
  /\ ~(race.timer = "armed" /\ clock >= race.ms)
  /\ \E t \in Instants : t > clock
  /\ clock' = Min({ t \in Instants : t > clock })
  /\ UNCHANGED <<history, budget, data, apiKey, pc, req, resp, prev, call, nodeEnv, http, peer,
                 race>>

NextTimeout ==
  \/ \E ms \in Instants \ {0} : WtCall(ms)
  \/ \E s \in Outcomes : WtSettle(s)
  \/ WtTimerFire
  \/ WtTick

SpecTimeout == Init /\ [][NextTimeout]_vars

\* ------------------------------------------------------------------------
\* Properties
\* ------------------------------------------------------------------------
\* the request in req has been answered: resp is the handler's response
Answered == pc = "idle" /\ req # NoReq

\* the message and the history of the request in req, as the handler reads them
reqMessage == WithMemo(UserMemo, req.message)
reqHistory == HistoryWithMemo(UserMemo, AssistantMemo, req.history)

\* C1 (intent non-stealing): when the slot reconstructed from the last
\* assistant turn is install_step and the message is one of the step words
\* panel / clamps / connector with no clear-shift signal, the response has
\* intent installation_help and the follow-up reply of that step (for
\* "clamps" the spring-clamp-or-screw-clamp question); toolLookupPart is not
\* called and no part card is returned.
C1_IntentNonStealing ==
  LET stepAnswer(u, h) ==
        /\ inferDialogState(h).kind = "install_step"
        /\ u.content \in {"panel", "clamps", "connector"}
        /\ ~u.isClearIntentShift
  IN (Answered /\ stepAnswer(reqMessage, reqHistory)) =>
       /\ resp.meta.intent = "installation_help"
       /\ resp.reply = replyInstallStepHelp(req.message)
       /\ (req.message = "clamps" =>
             includes(resp.reply, "Is it a spring clamp (two tabs) or a screw clamp?"))
       /\ ~SeqHas(resp.meta.toolsUsed, "toolLookupPart")
       /\ resp.cards = << >>

\* "clamps" has been answered with the clamp question in the install_step slot
C1_Witness ==
  /\ Answered
  /\ req.message = "clamps"
  /\ inferDialogState(reqHistory).kind = "install_step"
  /\ resp.reply = replyInstallStepHelp("clamps")
  /\ resp.meta.intent = "installation_help"

\* C2 (idempotence): a request answered twice gets the same reply and the
\* same meta both times, on every path of the router, the human-handoff
\* ticket path and the pump_sound path that consults the classifier included.
C2_Idempotent ==
  (Answered /\ prev # NoResp) => (resp.reply = prev.reply /\ resp.meta = prev.meta)

\* the parser of the slot awaiting fails on the message u
C3_ParserFails(u, awaiting) ==
  LET k == awaiting.kind
  IN IF k = "order_info"
     THEN \/ (awaiting.ask \in {"order_id", "both"} /\ u.extractOrderId = NONE)
          \/ (awaiting.ask \in {"zip", "both"} /\ u.extractZip = NONE)
     ELSE IF k = "dishwasher_drain_speed" THEN u.parseDrainSpeed = "null"
     ELSE IF k = "pump_sound" THEN u.parsePumpSound = "unknown" /\ call.result = "unknown"
     ELSE IF k = "drain_hose_setup" THEN u.parseDrainHoseSetup = "unknown"
     ELSE IF k = "sink_connection_type" THEN u.parseSinkConnectionType = "unknown"
     ELSE IF k = "choice" THEN u.parseChoice = "null"
     ELSE IF k = "panel_fastener" THEN u.parsePanelFastener = "null"
     ELSE IF k = "clamp_type" THEN u.parseClampType = "null"
     ELSE IF k = "connector_moving_or_stuck" THEN u.parseMovingOrStuck = "unknown"
     ELSE IF k = "connector_latch_side" THEN u.parseLatchSide = "null" /\ u.parseYesNo = "null"
     ELSE IF k = "install_step" THEN u.installStepOfMessage = "null"
     ELSE u.parseYesNo = "null"

\* C3 (an unparseable slot answer never advances state): when a slot is
\* active, the message is not a clear shift, the parser of the slot fails on
\* it (for pump_sound the classifier too) and nothing before the slot's
\* handler answers the turn (no short part token, no acknowledgement, no
\* small talk, no request for a human, no pending hand-off), the reply re-asks the question of the slot and the
\* slot reconstructed from that reply is of the same kind.
C3_UnparseableNeverAdvances ==
  LET unparsed(u, h, awaiting) ==
        /\ awaiting # NoSlot
        /\ ~u.isClearIntentShift
        /\ C3_ParserFails(u, awaiting)
        /\ u.extractShortPartToken = NONE
        /\ ~u.looksLikeAck
        /\ ~u.looksLikeSmallTalk
        /\ ~u.wantsHuman
        /\ ~handoffPending(h)
      reasked(awaiting) ==
        /\ resp.reply = replyReask(awaiting)
        /\ dialogStateOfText(toLowerCase(resp.reply)).kind = awaiting.kind
      holds(u, h, awaiting) == unparsed(u, h, awaiting) => reasked(awaiting)
      turn(u, h) == holds(u, h, activeAwaiting(u, h, inferPinnedAppliance(u, h)))
  IN Answered => turn(reqMessage, reqHistory)

\* the compatibility flow answered the request with part and model resolved
C4_Checked ==
  /\ Answered
  /\ resp.meta.intent = "compatibility_check"
  /\ resp.meta.extracted.partNumber # NONE
  /\ resp.meta.extracted.modelNumber # NONE

\* C4 (tri-state compatibility): in the compatibility flow with part number
\* and model number resolved, the reply is the "Yes - looks compatible" text
\* iff the lookup result is true, the "No - doesn't look compatible" text
\* iff it is false, and the "can't confirm" text iff the lookup has no data;
\* a lookup without data is never reported with the "No" text.
C4_TriState ==
  LET says(part, model, ok) ==
        /\ includes(resp.reply, "Yes ~ " \o part \o " looks compatible with " \o model \o ".")
             <=> ok = "true"
        /\ includes(resp.reply, "No ~ " \o part \o " doesn^t look compatible with " \o model)
             <=> ok = "false"
        /\ includes(resp.reply, "I can^t confirm compatibility for " \o part \o " with " \o model)
             <=> ok = "null"
        /\ (ok = "null" => ~includes(resp.reply, "No ~ "))
      checked(part, model) == says(part, model, toolCheckCompatibility(data, part, model).compatible)
  IN C4_Checked => checked(resp.meta.extracted.partNumber, resp.meta.extracted.modelNumber)

\* the lookup had no data for the pair and the reply says it cannot confirm
C4_Witness ==
  /\ C4_Checked
  /\ toolCheckCompatibility(data, resp.meta.extracted.partNumber,
                            resp.meta.extracted.modelNumber).compatible = "null"
  /\ includes(resp.reply, "I can^t confirm compatibility for PS11752778 with WDT780SAEM1")
  /\ SeqHas(resp.meta.toolsUsed, "toolCheckCompatibility")

\* the message carries no domain signal: no appliance or flow keyword, no
\* part-like or model-like token, no order id or zip, no yes/no, ack, small
\* talk or quick-reply word, no request for a human, no link
C5_NoDomainSignal(u) ==
  /\ ~u.looksLikeSmallTalk /\ ~u.looksLikeAck /\ ~u.wantsHuman
  /\ ~u.wantsReturnRefundShipping /\ ~u.looksLikeUrl
  /\ u.parseYesNo = "null" /\ ~u.isInstallQuickReply
  /\ u.norm \notin {"humming", "buzzing", "silent", "stuck", "moving"}
  /\ ~u.mentionsDomainWord /\ ~u.hasGlobalIntentKeyword
  /\ u.inferApplianceFromText = "unknown" /\ u.inferIntent = "unknown"
  /\ u.extractPartNumberFromLinkOrText = NONE /\ u.extractShortPartToken = NONE
  /\ u.extractModelNumber = NONE
  /\ u.extractOrderId = NONE /\ u.extractZip = NONE /\ u.extractEmail = NONE

\* C5 (domain gate): for every history, when no slot is active and the
\* message carries no domain signal, the response is the out-of-domain
\* redirect with meta.inDomain = false and meta.intent = unknown.
C5_DomainGate ==
  LET gated(u, h) ==
        (C5_NoDomainSignal(u) /\ activeAwaiting(u, h, inferPinnedAppliance(u, h)) = NoSlot) =>
          /\ resp.reply = replyOutOfDomain
          /\ resp.meta.inDomain = FALSE
          /\ resp.meta.intent = "unknown"
  IN Answered => gated(reqMessage, reqHistory)

\* the message holds a PS token of 1-4 digits and no full part number
C6_ShortTokenOnly(u) ==
  u.extractShortPartToken # NONE /\ u.extractPartNumberFromLinkOrText = NONE

\* C6 (incomplete part token): when the message holds a PS token of 1-4
\* digits and no full part number, the reply asks for the full PartSelect
\* part number and echoes the short token, whatever the active slot, the
\* intent and the part numbers of the history; no tool is called and
\* meta.extracted.partNumber is empty.
C6_IncompletePart ==
  LET asked(u) ==
        C6_ShortTokenOnly(u) =>
          /\ resp.reply = replyAskForFullPart(u.extractShortPartToken)
          /\ includes(resp.reply, "What^s the full PartSelect part number (starts with PS$)?")
          /\ includes(resp.reply, "I saw \"" \o u.extractShortPartToken \o "\"")
          /\ resp.meta.toolsUsed = << >>
          /\ resp.meta.extracted.partNumber = NONE
          /\ resp.cards = << >>
  IN Answered => asked(reqMessage)

\* "PS117" was answered while a slot was active and the history held a full
\* part number
C6_Witness ==
  /\ Answered
  /\ req.message = "PS117"
  /\ C6_ShortTokenOnly(reqMessage)
  /\ findLastPartNumber(reqHistory) # NONE
  /\ inferDialogState(reqHistory) # NoSlot
  /\ resp.reply = replyAskForFullPart("PS117")

\* a follow-up in an open dishwasher troubleshooting slot: a user turn
\* naming the dishwasher opened the flow, the last assistant turn asks a
\* question of the flow, and the message u has no appliance keyword
C7_FollowUp(u, h) ==
  /\ \E i \in 1..(Len(h) - 1) :
        /\ h[i].role = "user" /\ h[i].memo.inferApplianceFromText = "dishwasher"
        /\ h[i + 1].role = "assistant" /\ isAwaitingTroubleshoot(h[i + 1].memo.inferDialogState)
  /\ isAwaitingTroubleshoot(inferDialogState(h))
  /\ u.inferApplianceFromText = "unknown"

\* the turn resolves the dishwasher and keeps the slot of the history
C7_Pinned(u, h) ==
  /\ inferPinnedAppliance(u, h) = "dishwasher"
  /\ resp.meta.extracted.appliance = "dishwasher"
  /\ activeAwaiting(u, h, inferPinnedAppliance(u, h)) = inferDialogState(h)

\* among the last 8 user turns more name the dishwasher than the refrigerator
C7_DishwasherLeads(h) ==
  LET votes(recent, a) ==
        Cardinality({ i \in 1..Len(recent) : recent[i].memo.inferApplianceFromText = a })
      leads(recent) == votes(recent, "dishwasher") > votes(recent, "refrigerator")
  IN leads(lastNUser(h, 8))

\* the message has no global intent keyword and no part number, model
\* number, order id or zip
C7_PlainAnswer(u) ==
  /\ ~u.hasGlobalIntentKeyword
  /\ u.extractPartNumberFromLinkOrText = NONE /\ u.extractModelNumber = NONE
  /\ u.extractOrderId = NONE /\ u.extractZip = NONE

\* C7 as stated (appliance pinning is stable across a flow): once a user
\* message naming the dishwasher opened the dishwasher drain flow, every
\* follow-up without appliance keyword resolves appliance = dishwasher and
\* keeps the open troubleshooting slot, whatever the older user turns were.
C7_PinnedWhateverOlder ==
  LET turn(u, h) == C7_FollowUp(u, h) => C7_Pinned(u, h)
  IN Answered => turn(reqMessage, reqHistory)

\* C7 amended: the follow-up resolves appliance = dishwasher and keeps the
\* open troubleshooting slot when, among the last 8 user turns, those naming
\* the dishwasher outnumber those naming the refrigerator and the follow-up
\* has no global intent keyword and no part, model, order-id or zip token.
C7_PinnedByMajority ==
  LET turn(u, h) ==
        (C7_FollowUp(u, h) /\ C7_DishwasherLeads(h) /\ C7_PlainAnswer(u)) => C7_Pinned(u, h)
  IN Answered => turn(reqMessage, reqHistory)

\* "humming" answered in the pump question of a conversation that began with
\* the refrigerator: two dishwasher turns against one refrigerator turn
C7_Witness ==
  /\ Answered
  /\ req.message = "humming"
  /\ C7_FollowUp(reqMessage, reqHistory)
  /\ C7_DishwasherLeads(reqHistory)
  /\ \E i \in 1..Len(reqHistory) :
        /\ reqHistory[i].role = "user"
        /\ reqHistory[i].memo.inferApplianceFromText = "refrigerator"
  /\ inferDialogState(reqHistory).kind = "pump_sound"
  /\ resp.meta.extracted.appliance = "dishwasher"

\* the pump_sound slot is active and the message u, not a clear shift, is
\* one that parsePumpSound cannot classify
C8_Unclassified(u, h) ==
  /\ activeAwaiting(u, h, inferPinnedAppliance(u, h)).kind = "pump_sound"
  /\ ~u.isClearIntentShift
  /\ u.parsePumpSound = "unknown"

\* the response is the pump-sound question, not attributed to the classifier
C8_Reasked ==
  /\ resp.reply = "When it tries to drain, is the pump running, humming/buzzing, or totally silent?"
  /\ resp.meta.intent = "troubleshooting"
  /\ ~SeqHas(resp.meta.toolsUsed, "groqParsePumpSound")

\* C8 as stated (classifier failure degrades to a re-ask): in the pump_sound
\* slot, for a message that is not a clear shift and that parsePumpSound
\* cannot classify, whenever the classifier gives no class (no credential,
\* timeout, error status, unparseable body, value outside the closed set,
\* "unknown") the response is the pump-sound question with intent
\* troubleshooting and without groqParsePumpSound in toolsUsed.
C8_ReaskOnFailure ==
  LET turn(u, h) == (C8_Unclassified(u, h) /\ call.result \in {"none", "unknown"}) => C8_Reasked
  IN Answered => turn(reqMessage, reqHistory)

\* C8 amended: the same, for a message without a short PS token (such a
\* message is answered by the request for the full part number).
C8_ReaskOnFailureNoShortToken ==
  LET turn(u, h) ==
        (/\ C8_Unclassified(u, h)
         /\ u.extractShortPartToken = NONE
         /\ call.result \in {"none", "unknown"}) => C8_Reasked
  IN Answered => turn(reqMessage, reqHistory)

\* the classifier was asked, its timer fired, and the question was re-asked
C8_Witness ==
  /\ Answered
  /\ C8_Unclassified(reqMessage, reqHistory)
  /\ reqMessage.extractShortPartToken = NONE
  /\ call.state = "returned" /\ call.outcome = "timeout" /\ call.result = "unknown"
  /\ C8_Reasked

\* C9 (hard timeout, no hanging): every call of groqParsePumpSound has
\* returned by the time its timer of GROQ_TIMEOUT_MS fires, whatever the
\* service does: no call is still pending later than that, the call whose
\* response headers arrived in time and whose body never arrives included.
C9_HardTimeout ==
  (pc = "classifying" /\ call.state \in {"fetch", "body"}) => clock <= GROQ_TIMEOUT_MS

\* groqParsePumpSound has returned
C10_Returned == call.state = "returned"

\* the contents that name no class of the closed set: another value, no
\* pump_sound member, no JSON object, no content
C10_Unusable ==
  {"{\"pump_sound\": \"grinding\"}", "{\"sound\": \"humming\"}", "humming", NONE}

\* C10 (classifier optionality and output whitelist): without an API key
\* groqParsePumpSound returns "unknown" and no request is issued; and its
\* result is always one of running, humming, silent, unknown: a class is
\* returned only for an output that names it, and any other, missing or
\* malformed output gives "unknown".
C10_OptionalAndWhitelisted ==
  C10_Returned =>
    /\ (~apiKey => (call.result = "unknown" /\ ~call.requested /\ call.outcome = "no_key"))
    /\ call.result \in {"running", "humming", "silent", "unknown"}
    /\ (call.result # "unknown" =>
          /\ call.outcome = "classified"
          /\ includes(toLowerCase(call.content), "\"pump_sound\"")
          /\ includes(toLowerCase(call.content), call.result))
    /\ ((call.outcome = "classified" /\ call.content \in C10_Unusable) => call.result = "unknown")
    /\ (call.outcome # "classified" => call.result = "unknown")

\* the service answered with a class outside the closed set and the call
\* returned "unknown"
C10_Witness ==
  /\ C10_Returned
  /\ apiKey /\ call.requested
  /\ call.outcome = "classified"
  /\ call.content = "{\"pump_sound\": \"grinding\"}"
  /\ call.result = "unknown"

\* groqParsePumpSound has been called in the turn of the request in req
C11_Invoked == req # NoReq /\ call.calls > 0

\* the turn is one the handler of the pump_sound slot takes to the
\* classifier: the slot left after clearing is pump_sound, the message is no
\* clear shift and parsePumpSound could not tell
C11_PumpSoundUnknown(u, h) ==
  /\ activeAwaiting(u, h, inferPinnedAppliance(u, h)).kind = "pump_sound"
  /\ ~u.isClearIntentShift
  /\ u.parsePumpSound = "unknown"

\* C11 (classifier call discipline): the external classifier is called at
\* most once in a chat turn and never again after it returned, and it is
\* called only in a turn where the slot left after clearing is pump_sound,
\* the message is not a clear shift and parsePumpSound returned "unknown";
\* in every other turn no call is made and no request is sent.
C11_AtMostOnceWhenUnknown ==
  /\ call.calls <= 1
  /\ call.requested => call.calls > 0
  /\ C11_Invoked => C11_PumpSoundUnknown(reqMessage, reqHistory)

\* a turn whose one call came back "unknown" has been answered without a
\* second call
C11_Witness ==
  /\ Answered
  /\ call.calls = 1
  /\ call.requested
  /\ call.outcome = "timeout"
  /\ call.result = "unknown"

\* the four scripted replies of the pump_sound slot
C12_Scripted == { replyPumpSound(ps) : ps \in PumpSound }

\* response r is the scripted answer to pump sound v, with the intent
\* troubleshooting, and credits the classifier exactly when v is a sound
C12_AnswersWith(r, v) ==
  /\ r.meta.intent = "troubleshooting"
  /\ r.reply \in C12_Scripted
  /\ r.reply = replyPumpSound(v)
  /\ SeqHas(r.meta.toolsUsed, "groqParsePumpSound") <=> v # "unknown"

\* C12 (the classifier never chooses routing): in a turn where the external
\* classifier is called, whatever value it returns the response has
\* meta.intent = troubleshooting and its reply is one of the four scripted
\* pump-sound replies (running, humming, silent, re-ask), the one of the
\* returned value; the value is used, and credited in meta.toolsUsed, only
\* when it is not "unknown", and "unknown" gives the re-ask.
C12_ClassifierNeverRoutes ==
  /\ C11_Invoked =>
        \A v \in PumpSound :
          C12_AnswersWith(postChat(req.message, req.history, data, NONE, v), v)
  /\ (Answered /\ call.calls > 0) => C12_AnswersWith(resp, call.result)

\* the same pump_sound turn was run twice and the classifier answered
\* differently: the replies differ, both scripted, the intent is the same
C12_Witness ==
  /\ Answered
  /\ call.calls = 1
  /\ call.result = "humming"
  /\ prev # NoResp
  /\ prev.reply = replyPumpSound("unknown")
  /\ resp.reply = replyPumpSound("humming")
  /\ prev.meta.intent = resp.meta.intent

\* the last request was answered by handleChatTurn
C13_Served == Answered /\ http.status = 200

\* the reply asks for the part number (part) and for the model number (model)
C13_AsksFor(reply, part, model) ==
  /\ part => includes(reply, "part number")
  /\ model => includes(reply, "model number")

\* the response r to message u, of a turn that left the handler as x says
C13_ShortCircuits(r, x, u) ==
  LET used(tool) == SeqHas(r.meta.toolsUsed, tool)
      asked(part, model) ==
        /\ r.meta.toolsUsed = << >>
        /\ C13_AsksFor(r.reply, part, model)
  IN /\ used("toolCheckCompatibility") => x.partNumber # NONE /\ x.modelNumber # NONE
     /\ used("toolSearchGuides") => x.partNumber # NONE
     /\ used("toolLookupPart") => u.extractPartNumberFromLinkOrText # NONE
     /\ (/\ x.exit = "dispatch" /\ x.intent = "compatibility_check"
         /\ (x.partNumber = NONE \/ x.modelNumber = NONE))
          => asked(x.partNumber = NONE, x.modelNumber = NONE)
     /\ (x.exit = "dispatch" /\ x.intent = "installation_help" /\ x.partNumber = NONE)
          => asked(TRUE, FALSE)
     /\ (/\ x.exit = "dispatch" /\ x.intent = "part_lookup"
         /\ u.extractPartNumberFromLinkOrText = NONE)
          => asked(TRUE, FALSE)

\* C13 (missing entities short-circuit): a response names
\* toolCheckCompatibility in meta.toolsUsed only when a part number and a
\* model number are resolved, toolSearchGuides only when a part number is
\* resolved and toolLookupPart only when the current message holds a full
\* part number; and when the dispatch reaches the compatibility, the
\* installation or the part lookup handler with a required entity missing,
\* the reply asks for the missing one(s) and meta.toolsUsed is empty.
C13_MissingEntitiesShortCircuit ==
  C13_Served => C13_ShortCircuits(resp, exitTaken(reqMessage, reqHistory), reqMessage)

\* a compatibility question whose part number comes from the history and
\* whose model number is known nowhere: the reply asks for the model number
C13_Witness ==
  /\ C13_Served
  /\ req.message = "is this part compatible?"
  /\ resp.meta.intent = "compatibility_check"
  /\ resp.meta.extracted.partNumber = "PS11752778"
  /\ resp.meta.extracted.modelNumber = NONE
  /\ resp.reply = "What^s your model number?"
  /\ resp.meta.toolsUsed = << >>

\* the turns of history h that precede message u: all of them, but for a
\* last turn that is the message itself, sent along by the client
C14_EarlierTurns(u, h) ==
  { i \in 1..Len(h) : ~(i = Len(h) /\ h[i].role = "user" /\ h[i].content = u.content) }

C14_PartInHistory(u, h) ==
  \E i \in C14_EarlierTurns(u, h) : h[i].memo.extractPartNumberFromLinkOrText # NONE

C14_ModelInHistory(u, h) ==
  \E i \in C14_EarlierTurns(u, h) : h[i].role = "user" /\ h[i].memo.extractModelNumber # NONE

\* the replies that ask the user for the part number
C14_AsksPart(reply) ==
  \/ reply \in {replyInstallAskPart, replyLookupAskPart, replyCompatibilityAsk(NONE, NONE),
                replyCompatibilityAsk(NONE, "WDT780SAEM1")}
  \/ includes(reply, "What^s the full PartSelect part number")

\* the replies that ask the user for the model number
C14_AsksModel(reply) ==
  \/ reply \in {replyCompatibilityAsk(NONE, NONE), replyCompatibilityAsk("PS11752778", NONE)}
  \/ includes(reply, "what^s the fridge model number?")

\* C14 (never asks for what the history resolves): when a full part number
\* occurs in an earlier turn of the history, the reply does not ask the user
\* for the part number; and when a model number occurs in an earlier user
\* turn, the reply does not ask for the model number.
C14_NeverAsksResolvable ==
  LET never(u, h) ==
        /\ C14_PartInHistory(u, h) => ~C14_AsksPart(resp.reply)
        /\ C14_ModelInHistory(u, h) => ~C14_AsksModel(resp.reply)
  IN C13_Served => never(reqMessage, reqHistory)

\* what the most recent earlier turn among the turns at I supplies (NONE
\* when none supplies any), value(i) being what turn i supplies
C15_MostRecent(I, value(_)) ==
  LET last(S) == IF S = {} THEN NONE ELSE value(Max(S))
  IN last({ i \in I : value(i) # NONE })

\* the value of an entity by the fallback rule: the one of the current
\* message when it has one, else the most recent one of the history
C15_Fallback(now, I, value(_)) == IF now # NONE THEN now ELSE C15_MostRecent(I, value)

\* the earlier user turns of h that fit the pinned appliance
C15_UserTurns(u, h, appliance) ==
  { i \in C14_EarlierTurns(u, h) :
      /\ h[i].role = "user"
      /\ appliance \in {"unknown", h[i].memo.inferApplianceFromText} }

\* C15 (entity fallback to history): partNumber, modelNumber, orderId and zip
\* are each taken from the current message when it holds one and otherwise
\* from the most recent turn of the history that supplied one (the model
\* number from the user turns that fit the pinned appliance); in the order
\* flow the reply reports the order id and the zip so resolved, also when
\* the current message omits them and an earlier user turn supplied them.
C15_EntityFallback ==
  LET userTurns(u, h) == { i \in C14_EarlierTurns(u, h) : h[i].role = "user" }
      reports(reply, label, value) == value # NONE => includes(reply, label \o value)
      holds(u, h, x) ==
        /\ x.partNumber = C15_Fallback(u.extractPartNumberFromLinkOrText, C14_EarlierTurns(u, h),
                                       LAMBDA i : h[i].memo.extractPartNumberFromLinkOrText)
        /\ x.modelNumber = C15_Fallback(u.extractModelNumber, C15_UserTurns(u, h, x.appliance),
                                        LAMBDA i : h[i].memo.extractModelNumber)
        /\ resp.meta.intent = "order_support" =>
             /\ reports(resp.reply, "order=",
                        C15_Fallback(u.extractOrderId, userTurns(u, h),
                                     LAMBDA i : h[i].memo.extractOrderId))
             /\ reports(resp.reply, "zip=",
                        C15_Fallback(u.extractZip, userTurns(u, h),
                                     LAMBDA i : h[i].memo.extractZip))
  IN C13_Served => holds(reqMessage, reqHistory, resp.meta.extracted)

\* C16 (clear shift falls through): when a slot is active after clearing and
\* the message is a clear shift, the turn is not answered by the handler of
\* the slot, whatever the kind of the slot: its response is the one of the
\* top-level handling of the message.
C16_ClearShiftFallsThrough ==
  LET fallsThrough(u, x) ==
        (x.awaiting # NoSlot /\ u.isClearIntentShift) => x.exit # "slot"
  IN C13_Served => fallsThrough(reqMessage, exitTaken(reqMessage, reqHistory))

\* the text of the most recent assistant turn of history h, NONE without one
C17_LastAssistantText(h) ==
  LET last(idx) == IF idx = {} THEN NONE ELSE h[Max(idx)].content
  IN last({ i \in 1..Len(h) : h[i].role = "assistant" })

\* user turns that may follow the last assistant turn
C17_Trailing == { << >>, << User("yes") >>, << User("humming"), User("not sure") >> }

\* histories whose most recent assistant turn has text a: other earlier
\* turns before it, other user turns after it
C17_Variants(a) ==
  { older \o << Assistant(a) >> \o trailing :
      older \in OlderTurns \cup { << User("humming") >> }, trailing \in C17_Trailing }

\* C17 (the slot depends only on the most recent assistant turn): every
\* history whose most recent assistant turn has the text of the most recent
\* assistant turn of the request's history gives inferDialogState the same
\* slot, whatever the earlier turns and the user turns that follow; and a
\* history without an assistant turn gives no slot.
C17_SlotOfLastAssistantOnly ==
  LET slotOf(h) == inferDialogState(HistoryWithMemo(UserMemo, AssistantMemo, h))
      same(a, slot) ==
        IF a = NONE THEN slot = NoSlot
        ELSE \A v \in C17_Variants(a) : slotOf(v) = slot
  IN /\ Answered => same(C17_LastAssistantText(req.history), inferDialogState(reqHistory))
     /\ \A t \in C17_Trailing : slotOf(t) = NoSlot

\* the pump question is the last assistant turn, a user turn follows it and
\* an earlier assistant turn asked about the freezer: the slot is pump_sound
C17_Witness ==
  /\ Answered
  /\ Len(req.history) = 5
  /\ req.history[5].role = "user"
  /\ AssistantMemo[req.history[2].content].inferDialogState.kind = "fridge_freezer_warming_yesno"
  /\ inferDialogState(reqHistory).kind = "pump_sound"

\* a request has been answered whose body held no text as its message:
\* the message was missing, or no string, or the empty string
C18_NoText ==
  /\ http.status # 0
  /\ \/ http.message.type # "string"
     \/ http.message.value = ""

\* C18 (input validation at the boundary): a POST /api/chat whose message is
\* missing, not a string or the empty string is answered with status 400,
\* the reply "Please provide a message." and inDomain = false, and
\* handleChatTurn is not called for it; no other request is answered 400.
C18_BadRequestRejected ==
  /\ C18_NoText =>
       /\ http.status = 400
       /\ resp.reply = "Please provide a message."
       /\ resp.meta.inDomain = FALSE
       /\ ~http.invoked
       /\ pc = "idle"
  /\ http.status = 400 => C18_NoText

\* the empty string was sent as the message and rejected
C18_Witness ==
  /\ http.status = 400
  /\ http.message = JsString("")
  /\ ~http.invoked
  /\ resp.reply = "Please provide a message."

\* handleChatTurn threw while handling the last request
C19_Thrown == http.invoked /\ http.threw # NONE

\* C19 (exceptions are caught at the boundary): an error thrown while a chat
\* turn is handled is answered with status 500 and the generic apology, with
\* inDomain = true and intent = unknown; it does not propagate (the server
\* is ready for the next request); and meta carries the error message
\* exactly when NODE_ENV is not "production".
C19_ExceptionCaught ==
  /\ C19_Thrown =>
       /\ http.status = 500
       /\ resp.reply = "Sorry ~ something went wrong on our side."
       /\ resp.meta.inDomain /\ resp.meta.intent = "unknown"
       /\ pc = "idle"
       /\ ("error" \in DOMAIN resp.meta) <=> nodeEnv # "production"
       /\ ("error" \in DOMAIN resp.meta) => resp.meta.error = http.threw
  /\ http.status = 500 => C19_Thrown

\* in production a history with a null turn made the handler throw: the
\* response is the apology without the error message
C19_Witness ==
  /\ C19_Thrown
  /\ nodeEnv = "production"
  /\ http.status = 500
  /\ http.threw = "Cannot read properties of null (reading 'role')"
  /\ DOMAIN resp.meta = {"inDomain", "intent"}

\* response r to message u carries at most one card, and one only from the
\* part lookup handler, for the part typed in the message and found
C20_CardOnlyFromLookup(r, x, u) ==
  LET typed == u.extractPartNumberFromLinkOrText
      found(part) ==
        /\ part # << >>
        /\ r.cards[1].type = "part"
        /\ r.cards[1].partNumber = part[1].partNumber
        /\ r.cards[1].partNumber = normUpper(typed)
  IN /\ Len(r.cards) <= 1
     /\ Len(r.cards) = 1 =>
          /\ x.exit = "dispatch"
          /\ x.intent = "part_lookup"
          /\ r.meta.intent = "part_lookup"
          /\ typed # NONE
          /\ r.meta.toolsUsed = << "toolLookupPart" >>
          /\ found(toolLookupPart(data, typed).part)

\* C20 (cards invariant): every response of handleChatTurn carries zero or
\* one card, and it carries one only when the intent the dispatch routes on
\* is part_lookup, the current message holds a full part number and
\* toolLookupPart found that part; every other flow returns no card.
C20_CardsInvariant ==
  C13_Served => C20_CardOnlyFromLookup(resp, exitTaken(reqMessage, reqHistory), reqMessage)

\* the part typed in the message was found: the response carries its card
C20_Witness ==
  /\ C13_Served
  /\ req.message = "PS11752778"
  /\ resp.meta.intent = "part_lookup"
  /\ Len(resp.cards) = 1
  /\ resp.cards[1].partNumber = "PS11752778"

\* what the call of handleChatTurn on request r returns when no other
\* request is handled: n the ticket number it draws, llm what the classifier
\* answers if it is asked
C21_Alone(r, d, n, llm) ==
  LET run(first) ==
        IF first # AwaitsClassifier THEN first
        ELSE postChat(r.message, r.history, d, n, llm)
  IN run(postChat(r.message, r.history, d, n, "pending"))

\* the response a has the intent, the entities, the tools and the reply of b
C21_Same(a, b) ==
  /\ a.reply = b.reply
  /\ a.meta.intent = b.meta.intent
  /\ a.meta.extracted = b.meta.extracted
  /\ a.meta.toolsUsed = b.meta.toolsUsed

C22_ReadmeExample ==
  LET inSlot(u, h) == activeAwaiting(u, h, inferPinnedAppliance(u, h)).kind = "pump_sound"
  IN /\ Answered
     /\ req.message \in ReadmeMessages
     /\ inSlot(reqMessage, reqHistory)

C23_Signals(u) ==
  LET t == u.toLowerCase
      any(words) == \E w \in words : includes(t, w)
  IN << u.wantsHuman,
        any({"install", "installation", "replacement", "replace", "remove", "swap"}),
        any({"compatible", "compatibility", "fit my model", "fits my model"}),
        u.wantsAlternatives \/ u.extractPartNumberFromLinkOrText # NONE,
        u.wantsReturnRefundShipping \/ u.extractOrderId # NONE \/ u.extractZip # NONE,
        any({"not working", "won't", "doesn't", "troubleshoot", "fix", "not cooling",
             "not draining", "leak", "error code", "e:", "f:", "beeping"}) >>

\* the intent of the first signal present
C23_FirstMatch(signals) ==
  LET intents == << "order_support", "installation_help", "compatibility_check",
                    "part_lookup", "order_support", "troubleshooting" >>
  IN IF \E i \in 1..6 : signals[i]
     THEN intents[Min({ i \in 1..6 : signals[i] })]
     ELSE "unknown"

\* C23 (inferIntent precedence, first match wins): human-handoff request >
\* installation keywords > compatibility keywords > alternatives request or
\* explicit part number/link (part_lookup) > order/shipping/return signal or
\* order id/zip (order_support) > troubleshooting keywords > unknown; a
\* message with an installation (or compatibility) keyword and a full part
\* number never resolves to part_lookup: it resolves to installation_help
\* (or compatibility_check) unless it asks for a human, which comes first.
C23_Precedence ==
  LET first(u, signals) ==
        /\ u.inferIntent = C23_FirstMatch(signals)
        /\ ((signals[2] \/ signals[3]) /\ u.extractPartNumberFromLinkOrText # NONE) =>
             /\ u.inferIntent # "part_lookup"
             /\ ~signals[1] => u.inferIntent = (IF signals[2] THEN "installation_help"
                                                ELSE "compatibility_check")
      holds(u) == first(u, C23_Signals(u))
  IN Answered => holds(reqMessage)

\* a message with installation and compatibility keywords and a full part
\* number has been answered as an installation question
C23_Witness ==
  /\ Answered
  /\ req.message = "How do I install PS11752778, and is it compatible?"
  /\ reqMessage.extractPartNumberFromLinkOrText = "PS11752778"
  /\ reqMessage.inferIntent = "installation_help"
  /\ resp.meta.intent = "installation_help"

\* the message u holds a full part number and a model number and none of
\* the keywords of an intent
C24_PartAndModelOnly(u) ==
  LET none(signals) ==
        /\ ~signals[1] /\ ~signals[2] /\ ~signals[3] /\ ~signals[6]
        /\ ~u.wantsAlternatives /\ ~u.wantsReturnRefundShipping
  IN /\ u.extractPartNumberFromLinkOrText # NONE
     /\ u.extractModelNumber # NONE
     /\ ~u.hasGlobalIntentKeyword
     /\ none(C23_Signals(u))

\* C24 (part number + model number => compatibility): a message that
\* contains both a full PS part number and a model number and no intent
\* keyword resolves to intent compatibility_check and is handled by the
\* compatibility flow (toolCheckCompatibility is called and the reply is a
\* compatibility reply).
C24_PartAndModelIsCompatibility ==
  LET part == reqMessage.extractPartNumberFromLinkOrText
      model == reqMessage.extractModelNumber
  IN (Answered /\ C13_Served /\ C24_PartAndModelOnly(reqMessage)) =>
       /\ resp.meta.intent = "compatibility_check"
       /\ SeqHas(resp.meta.toolsUsed, "toolCheckCompatibility")
       /\ \E ok \in {"true", "false", "null"} :
            resp.reply = replyCompatibility(ok, part, model)

\* the slot left after clearing on the request in req
C25_Awaiting ==
  LET slot(u, h) == activeAwaiting(u, h, inferPinnedAppliance(u, h))
  IN slot(reqMessage, reqHistory)

\* the intent of the family of the slot, "none" for a slot of no family
C25_FamilyIntent(awaiting) ==
  IF isAwaitingInstall(awaiting) THEN "installation_help"
  ELSE IF isAwaitingTroubleshoot(awaiting) THEN "troubleshooting"
  ELSE IF isAwaitingOrder(awaiting) THEN "order_support"
  ELSE "none"

\* C25 (stickiness for the three slot families): whenever a slot of the
\* installation, troubleshooting or order family remains active after
\* clearing and the message is not a clear shift, the response's meta.intent
\* is the intent of that family and none of toolLookupPart,
\* toolCheckCompatibility, toolSearchGuides is called.
C25_FamilySticky ==
  LET sticky(awaiting) ==
        (/\ awaiting # NoSlot
         /\ C25_FamilyIntent(awaiting) # "none"
         /\ ~reqMessage.isClearIntentShift) =>
          /\ resp.meta.intent = C25_FamilyIntent(awaiting)
          /\ \A t \in {"toolLookupPart", "toolCheckCompatibility", "toolSearchGuides"} :
               ~SeqHas(resp.meta.toolsUsed, t)
  IN (Answered /\ C13_Served) => sticky(C25_Awaiting)

\* a part number cut short has been answered in a troubleshooting slot: the
\* reply asks for the full number and the intent is that of the family
C25_Witness ==
  /\ Answered
  /\ req.message = "PS117"
  /\ C25_FamilyIntent(C25_Awaiting) = "troubleshooting"
  /\ ~reqMessage.isClearIntentShift
  /\ resp.meta.intent = "troubleshooting"
  /\ resp.reply = replyAskForFullPart("PS117")

\* C26 (no reset while awaiting): whenever any slot remains active after
\* clearing and the message is not a clear shift - small talk such as
\* "hello" included - the reply is neither the home/greeting reply nor the
\* out-of-domain redirect.
C26_NoResetWhileAwaiting ==
  LET kept(awaiting) ==
        (awaiting # NoSlot /\ ~reqMessage.isClearIntentShift) =>
          /\ resp.reply # replyHome
          /\ resp.reply # replyOutOfDomain
          /\ resp.meta.inDomain
  IN (Answered /\ C13_Served) => kept(C25_Awaiting)

\* "hello" has been answered with the question of the open slot
C26_Witness ==
  /\ Answered
  /\ req.message = "hello"
  /\ reqMessage.looksLikeSmallTalk
  /\ C25_Awaiting # NoSlot
  /\ resp.reply = replyReask(C25_Awaiting)

\* the text a ends with a "(yes/no)" question
C27_AsksYesNo(a) ==
  LET endsWith(p) == Len(a) >= Len(p) /\ SubSeq(a, Len(a) - Len(p) + 1, Len(a)) = p
  IN endsWith("(yes/no)") \/ endsWith("(yes/no)?")

\* the last assistant turn of the request in req asks a "(yes/no)" question
\* and the message answers it with yes or no
C27_YesNoAnswered ==
  LET asked(h) == lastAssistant(h) # NoTurn /\ C27_AsksYesNo(lastAssistant(h).content)
  IN /\ Answered
     /\ asked(reqHistory)
     /\ reqMessage.parseYesNo # "null"

\* C27 (a yes/no answer to a yes/no question is consumed by the flow): in a
\* conversation that follows the scripted flow, when the last assistant
\* reply ends with a "(yes/no)" question and the user answers yes or no, the
\* question is recognised as a slot by inferDialogState, the reply is that
\* of the slot's handler and it is never the home/greeting reply.
C27_YesNoConsumed ==
  LET consumed(x) ==
        /\ inferDialogState(reqHistory) # NoSlot
        /\ x.exit = "slot"
        /\ resp.reply # replyHome
  IN C27_YesNoAnswered => consumed(exitTaken(reqMessage, reqHistory))

\* C28 (acknowledgements keep the slot): for every slot kind, when the slot
\* is active and the message is a pure acknowledgement (ok, thanks, got it),
\* the reply re-asks the question of that slot and the slot reconstructed
\* from that reply on the next turn is of the same kind.
C28_AckKeepsSlot ==
  LET kept(awaiting) ==
        (awaiting # NoSlot /\ reqMessage.looksLikeAck) =>
          /\ resp.reply = replyReask(awaiting)
          /\ dialogStateOfText(toLowerCase(resp.reply)).kind = awaiting.kind
  IN (Answered /\ C13_Served) => kept(C25_Awaiting)

\* C29 (step order after the knockout question): when the slot is
\* disposal_knockout_yesno or tailpiece_gunk_yesno and the user answers yes or
\* no, the reply asks whether it now drains normally and the slot
\* reconstructed from that reply on the next turn is did_it_fix_yesno.
C29_KnockoutAnswered ==
  LET answered(awaiting) ==
        /\ awaiting.kind \in {"disposal_knockout_yesno", "tailpiece_gunk_yesno"}
        /\ reqMessage.parseYesNo # "null"
        /\ ~reqMessage.isClearIntentShift
  IN Answered /\ C13_Served /\ answered(C25_Awaiting)
C29_ThenDidItFix ==
  LET next(reply) ==
        /\ includes(toLowerCase(reply), "drain normally now? (yes/no)")
        /\ dialogStateOfText(toLowerCase(reply)).kind = "did_it_fix_yesno"
  IN C29_KnockoutAnswered => next(resp.reply)

\* the slot reconstructed from the turn i of the conversation h
C30_SlotAt(h, i) == AssistantMemo[h[i].content].inferDialogState.kind

\* the answer u is parsed by the parser of the slot kind k
C30_Parsed(u, k) ==
  /\ ~u.isClearIntentShift
  /\ IF k = "pump_sound" THEN u.parsePumpSound # "unknown"
     ELSE IF k = "dishwasher_drain_speed" THEN u.parseDrainSpeed # "null"
     ELSE IF k = "drain_hose_setup" THEN u.parseDrainHoseSetup # "unknown"
     ELSE IF k = "sink_connection_type" THEN u.parseSinkConnectionType # "unknown"
     ELSE k # "none" /\ u.parseYesNo # "null"

\* C30 (progress of the dishwasher drain flow): along any sequence of
\* successfully parsed answers the flow never returns to a slot it already
\* asked: two questions of the conversation that are separated by parsed
\* answers only are never questions of the same slot.
C30_NeverReturnsToSlot ==
  LET questions(h) == { i \in 1..Len(h) : h[i].role = "assistant" }
      parsedBetween(h, i, j) ==
        \A n \in (i + 1)..(j - 1) :
          h[n].role = "user" => C30_Parsed(UserMemo[h[n].content], C30_SlotAt(h, n - 1))
      fresh(h) ==
        \A i \in questions(h) : \A j \in questions(h) :
          (i < j /\ parsedBetween(h, i, j) /\ C30_SlotAt(h, i) # "none")
            => C30_SlotAt(h, i) # C30_SlotAt(h, j)
  IN pc = "idle" => fresh(history)

\* C31 (a troubleshooting message clears an installation slot): for every
\* slot of the installation family (install_step, clamp_type, panel_fastener,
\* connector_latch_side, panel_still_wont_drop_yesno,
\* connector_moving_or_stuck), shouldClearAwaiting clears the slot whenever
\* the raw intent of the current message is troubleshooting.
C31_ClearsInstallFamily ==
  LET cleared(u, h) ==
        (isAwaitingInstall(inferDialogState(h)) /\ u.inferIntent = "troubleshooting")
          => shouldClearAwaiting(inferDialogState(h), u.inferIntent,
                                 inferPinnedAppliance(u, h), u)
  IN Answered => cleared(reqMessage, reqHistory)

\* the user turns of h that have fewer than 8 user turns after them
C32_Recent(h) ==
  { i \in 1..Len(h) :
      /\ h[i].role = "user"
      /\ Cardinality({ k \in (i + 1)..Len(h) : h[k].role = "user" }) < 8 }

\* the appliance with strictly more votes among the turns I of h, "unknown"
\* on a tie
C32_Majority(h, I) ==
  LET votes(a) == Cardinality({ i \in I : h[i].memo.inferApplianceFromText = a })
  IN IF votes("dishwasher") > votes("refrigerator") THEN "dishwasher"
     ELSE IF votes("refrigerator") > votes("dishwasher") THEN "refrigerator"
     ELSE "unknown"

\* the appliance the rule gives for the message u after the history h
C32_Rule(u, h) ==
  LET t == toLowerCase(u.content)
      dishwasher == \E w \in {"dishwasher", "wdt", "kdf", "not draining", "drain", "spray arm",
                              "sump", "air gap", "high loop"} : includes(t, w)
      refrigerator == \E w \in {"fridge", "refrigerator", "freezer", "ice maker", "icemaster",
                                "defrost", "evaporator", "not cooling"} : includes(t, w)
  IN IF dishwasher THEN "dishwasher"
     ELSE IF refrigerator THEN "refrigerator"
     ELSE C32_Majority(h, C32_Recent(h))

\* C32 (appliance pinning rule): inferPinnedAppliance returns the appliance
\* signalled by the current message when there is one, dishwasher signals
\* checked before refrigerator signals; otherwise the appliance with strictly
\* more votes among the last 8 user turns of the history, each classified on
\* its own, and "unknown" on a tie.  Assistant turns and user turns older
\* than the last 8 never affect the result, which is the appliance the
\* response reports.
C32_PinningRule ==
  LET rule(u, h) ==
        /\ inferPinnedAppliance(u, h) = C32_Rule(u, h)
        /\ resp.meta.extracted.appliance = C32_Rule(u, h)
  IN (Answered /\ C13_Served) => rule(reqMessage, reqHistory)

\* a message that names no appliance, answered after more than 8 user turns
\* with the assistant's replies between them, where the vote over all the
\* user turns of the history would be a tie and the vote over the last 8
\* gives the dishwasher
C32_Witness ==
  LET users(h) == C32_Majority(h, { i \in 1..Len(h) : h[i].role = "user" })
      case(u, h) ==
        /\ u.inferApplianceFromText = "unknown"
        /\ Cardinality({ i \in 1..Len(h) : h[i].role = "user" }) > 8
        /\ C32_Rule(u, h) = "dishwasher"
        /\ users(h) = "unknown"
        /\ \E i \in 1..Len(h) : h[i].role = "assistant"
        /\ resp.meta.extracted.appliance = "dishwasher"
  IN Answered /\ C13_Served /\ case(reqMessage, reqHistory)

\* the count for the message u after h, and after h with u appended as a
\* final user turn
C33_Count(u, h) == countUserRepeatsExcludingCurrent(h, u)
C33_CountWithCopy(u, h) ==
  countUserRepeatsExcludingCurrent(
    Append(h, [role |-> "user", content |-> u.content, memo |-> u]), u)

\* the installation outline of the response is the first-time phrasing iff
\* the count is 0, otherwise the repeat variant the parity of the count selects
C33_OutlineByCount(u, h) ==
  LET part == resp.meta.extracted.partNumber
      model == resp.meta.extracted.modelNumber
      first == compactInstallSteps(part, model)
      odd == "No worries ~ continuing " \o part
             \o (IF model # NONE THEN " (" \o model \o ")" ELSE "") \o " install.\n"
             \o "Which step is blocking you: panel, clamps, or connector?"
      even == "Looks like we^re still on the install for " \o part
              \o (IF model # NONE THEN " (" \o model \o ")" ELSE "") \o ".\n"
              \o "Want help with panel, clamps, or connector?"
  IN resp.reply \in {first, odd, even} =>
       resp.reply = (IF C33_Count(u, h) = 0 THEN first
                     ELSE IF C33_Count(u, h) % 2 = 1 THEN odd ELSE even)

\* the last turn of h is a user turn with the normalized text of u
C33_EndsWithCopy(u, h) ==
  Len(h) > 0 /\ h[Len(h)].role = "user" /\ h[Len(h)].memo.norm = u.norm

\* C33 as stated (repeat counting ignores the client's own copy): for every
\* message m and history h the repeat count of (m, h) equals the count of
\* (m, h with m appended as a final user turn), and the installation outline
\* uses the first-time phrasing iff that count is 0, otherwise the repeat
\* variant selected by the parity of the count.
C33_CopyNeverCounts ==
  LET same(u, h) == C33_Count(u, h) = C33_CountWithCopy(u, h) /\ C33_OutlineByCount(u, h)
  IN (Answered /\ C13_Served) => same(reqMessage, reqHistory)

\* C33 amended: the two counts are equal for every message m and every
\* history h that does not already end with a user turn of the normalized
\* text of m; the installation outline uses the first-time phrasing iff the
\* count of the request is 0, otherwise the repeat variant selected by the
\* parity of the count.
C33_OneCopyNeverCounts ==
  LET same(u, h) ==
        /\ ~C33_EndsWithCopy(u, h) => C33_Count(u, h) = C33_CountWithCopy(u, h)
        /\ C33_OutlineByCount(u, h)
  IN (Answered /\ C13_Served) => same(reqMessage, reqHistory)

\* the installation question asked for the third time, sent without the
\* client's copy: the count is 2 with or without the copy and the reply is
\* the variant of the even counts
C33_Witness ==
  LET case(u, h) ==
        /\ ~C33_EndsWithCopy(u, h)
        /\ C33_Count(u, h) = 2
        /\ C33_CountWithCopy(u, h) = 2
        /\ resp.reply = compactInstallRepeatVariant("PS11752778", NONE, 2)
  IN Answered /\ C13_Served /\ case(reqMessage, reqHistory)

\* the response opens a support ticket
C34_TicketCreated ==
  \E i \in 1..Len(resp.meta.toolsUsed) : resp.meta.toolsUsed[i] = "toolCreateSupportTicketDemo"

\* the email prompt is the last assistant turn of h
C34_PromptPending(h) ==
  \E i \in 1..Len(h) :
    /\ h[i].role = "assistant"
    /\ \A k \in (i + 1)..Len(h) : h[k].role # "assistant"
    /\ includes(toLowerCase(h[i].content), "your email")
    /\ \E w \in {"ticket", "human follow-up", "human", "support"} :
         includes(toLowerCase(h[i].content), w)

\* a human was requested in one of the last 10 user turns of h
C34_AskedBefore(h) ==
  \E i \in 1..Len(h) :
    /\ h[i].role = "user" /\ h[i].memo.wantsHuman
    /\ Cardinality({ k \in (i + 1)..Len(h) : h[k].role = "user" }) < 10

\* C34 (human handoff sequence): a message that requests a human and holds
\* no email address is answered with the "send your email" prompt and opens
\* no ticket, whatever the active slot and the other intent keywords (only
\* the domain gate and the check of an incomplete part token come earlier);
\* a ticket is opened only in a turn whose message holds an email address
\* and where a human was requested in the message, in one of the last 10
\* user turns or by a pending email prompt; and the slot reconstructed from
\* the ticket reply on the next turn is choice.
C34_HandoffSequence ==
  LET prompt(u, h) ==
        (u.wantsHuman /\ u.extractEmail = NONE /\ u.extractShortPartToken = NONE)
          => (resp.reply = replyAskEmail /\ ~C34_TicketCreated)
      ticket(u, h) ==
        C34_TicketCreated =>
          /\ u.extractEmail # NONE
          /\ u.wantsHuman \/ C34_AskedBefore(h) \/ C34_PromptPending(h)
          /\ dialogStateOfText(toLowerCase(resp.reply)).kind = "choice"
      next(h) ==
        (lastAssistant(h) # NoTurn
           /\ \E n \in TicketDigits :
                lastAssistant(h).content = replyTicketOpened(createSupportTicketDemo(n).ticketId))
          => inferDialogState(h).kind = "choice"
  IN (Answered /\ C13_Served) =>
       (prompt(reqMessage, reqHistory) /\ ticket(reqMessage, reqHistory) /\ next(reqHistory))

\* the sequence in the open pump question: the request for a human with an
\* install keyword and a part number got the prompt, the address alone then
\* opened the ticket, its request being two user turns back
C34_Witness ==
  LET case(u, h) ==
        /\ Len(h) >= 4
        /\ h[1].content = "My dishwasher is not draining"
        /\ h[3].content = "I want a human to help me install PS11752778"
        /\ h[4].content = replyAskEmail
        /\ u.content = "name@email.com"
        /\ ~u.wantsHuman
        /\ C34_TicketCreated
        /\ dialogStateOfText(toLowerCase(resp.reply)).kind = "choice"
  IN Answered /\ C13_Served /\ case(reqMessage, reqHistory)

\* C35 (the resolved part number comes from the user): the part number of
\* meta.extracted is absent or is a part number that occurs in the current
\* message or in a user turn of the history; it is never taken from the
\* assistant's own replies.
C35_PartFromUser ==
  LET fromUser(u, h, part) ==
        \/ part = NONE
        \/ u.extractPartNumberFromLinkOrText = part
        \/ \E i \in 1..Len(h) :
             h[i].role = "user" /\ h[i].memo.extractPartNumberFromLinkOrText = part
  IN (Answered /\ C13_Served) => fromUser(reqMessage, reqHistory, resp.meta.extracted.partNumber)

\* the model number of the most recent user turn of h that holds one and, if
\* the appliance pinned is not unknown, signals that appliance itself
C36_Continued(h, pinned) ==
  LET from == { i \in 1..Len(h) :
                  /\ h[i].role = "user"
                  /\ h[i].memo.extractModelNumber # NONE
                  /\ pinned # "unknown" => h[i].memo.inferApplianceFromText = pinned }
  IN IF from = {} THEN NONE
     ELSE h[CHOOSE i \in from : \A k \in from : k <= i].memo.extractModelNumber

\* C36 (model-number continuity is filtered by appliance): when the current
\* message has no model number, the model number resolved is that of the
\* most recent user turn that holds a model number and, if the pinned
\* appliance is not unknown, itself signals that appliance; a model number
\* given in a user turn that signals the other appliance is never resolved,
\* and assistant turns are never used.
C36_ModelContinuity ==
  LET continued(u, h, e) ==
        u.extractModelNumber = NONE =>
          /\ e.modelNumber = C36_Continued(h, e.appliance)
          /\ e.modelNumber # NONE =>
               \E i \in 1..Len(h) :
                 /\ h[i].role = "user"
                 /\ h[i].memo.extractModelNumber = e.modelNumber
                 /\ e.appliance # "unknown" => h[i].memo.inferApplianceFromText = e.appliance
  IN (Answered /\ C13_Served) => continued(reqMessage, reqHistory, resp.meta.extracted)

\* the refrigerator's model number was given, then the dishwasher is named in
\* a message without model number: no model number is resolved
C36_Witness ==
  LET case(u, h, e) ==
        /\ u.extractModelNumber = NONE
        /\ e.appliance = "dishwasher"
        /\ \E i \in 1..Len(h) :
             /\ h[i].role = "user"
             /\ h[i].memo.extractModelNumber = "RF28R7351SG"
             /\ h[i].memo.inferApplianceFromText = "refrigerator"
        /\ e.modelNumber = NONE
  IN Answered /\ C13_Served /\ case(reqMessage, reqHistory, resp.meta.extracted)

\* C37 (meta.toolsUsed is faithful): the response lists the classifier
\* exactly when the external classifier was called during the turn; in
\* particular "groqParsePumpSound" is listed in every turn in which the
\* request to the classifier was sent.
C37_ToolsUsedFaithful ==
  LET listed(tools) == \E i \in 1..Len(tools) : tools[i] = "groqParsePumpSound"
  IN (Answered /\ C13_Served) => (listed(resp.meta.toolsUsed) <=> call.requested)

\* C38 (withTimeout settles exactly once): the promise returned is settled
\* iff p has settled or the timer has fired; if p settled first the timer is
\* cleared and the settlement of p is passed through; if the timer fired
\* first the result is the GROQ_TIMEOUT rejection, and stays it when p
\* settles later.
C38_SettlesOnce ==
  LET once(r) ==
        /\ r.timer = "armed" => (r.out = Pending /\ r.p = Pending)
        /\ r.timer = "cleared" => (r.p # Pending /\ r.out = r.p)
        /\ r.timer = "fired" => r.out = Rejected("GROQ_TIMEOUT")
        /\ r.timer = "off" => r = NoRace
  IN once(race)

\* the timer fired first and p was fulfilled later: the result is still the
\* GROQ_TIMEOUT rejection
C38_Witness ==
  /\ race.timer = "fired"
  /\ race.p.status = "fulfilled"
  /\ race.out = Rejected("GROQ_TIMEOUT")
====
